---- MODULE Spec2Model ----
(***************************************************************************)
(* Kernel module file introspection of linapi: ModInfo::read of            *)
(* src/module_file.rs, stage by stage.                                      *)
(*                                                                         *)
(* A byte is a one-character string; NUL is the byte 0 and xFF the byte     *)
(* 0xFF, which no UTF-8 text contains. A string or byte slice is a          *)
(* sequence of bytes.                                                       *)
(***************************************************************************)
EXTENDS Integers, Sequences, FiniteSets, TLC

\* Longest .modinfo section, in records, that Init draws.
MaxRecs == 3

NUL == "NUL"
xFF == "xFF"
EQ == "="
COLON == ":"
COMMA == ","
NL == "\n"

(***************************************************************************)
(* Byte strings of the std library calls ModInfo::read makes.               *)
(***************************************************************************)
None == [some |-> FALSE]
Some(v) == [some |-> TRUE, v |-> v]

\* The index of the first c in s, 0 when s holds no c.
Find(s, c) ==
    IF \E i \in 1..Len(s) : s[i] = c
    THEN CHOOSE i \in 1..Len(s) : s[i] = c /\ \A j \in 1..(i - 1) : s[j] # c
    ELSE 0

\* str::split_once(c): the text before and after the first c.
split_once(s, c) ==
    LET i == Find(s, c) IN
    IF i = 0 THEN None
    ELSE Some(<<SubSeq(s, 1, i - 1), SubSeq(s, i + 1, Len(s))>>)

\* slice::split / str::split: every piece between separators, empty ones too.
RECURSIVE split(_, _)
split(s, c) ==
    LET i == Find(s, c) IN
    IF i = 0 THEN <<s>>
    ELSE <<SubSeq(s, 1, i - 1)>> \o split(SubSeq(s, i + 1, Len(s)), c)

\* [String]::join(sep)
RECURSIVE join(_, _)
join(v, sep) ==
    IF Len(v) = 0 THEN <<>>
    ELSE IF Len(v) = 1 THEN v[1]
    ELSE v[1] \o <<sep>> \o join(Tail(v), sep)

\* A from_utf8 whose error does not say how far the text was valid
from_utf8_NoPrefix(s) ==
    [ok |-> Find(s, xFF) = 0, valid_up_to |-> IF Find(s, xFF) = 0 THEN Len(s) ELSE 0]

\* str::from_utf8: Ok, or the Utf8Error with its valid_up_to().
from_utf8(s) ==
    LET i == Find(s, xFF) IN
    IF i = 0 THEN [ok |-> TRUE, valid_up_to |-> Len(s)]
    ELSE [ok |-> FALSE, valid_up_to |-> i - 1]

(***************************************************************************)
(* The tags of the .modinfo format.                                         *)
(***************************************************************************)
T_parm == <<"p", "a", "r", "m">>
T_parmtype == <<"p", "a", "r", "m", "t", "y", "p", "e">>
T_alias == <<"a", "l", "i", "a", "s">>
T_softdep == <<"s", "o", "f", "t", "d", "e", "p">>
T_license == <<"l", "i", "c", "e", "n", "s", "e">>
T_author == <<"a", "u", "t", "h", "o", "r">>
T_description == <<"d", "e", "s", "c", "r", "i", "p", "t", "i", "o", "n">>
T_version == <<"v", "e", "r", "s", "i", "o", "n">>
T_firmware == <<"f", "i", "r", "m", "w", "a", "r", "e">>
T_vermagic == <<"v", "e", "r", "m", "a", "g", "i", "c">>
T_name == <<"n", "a", "m", "e">>
T_intree == <<"i", "n", "t", "r", "e", "e">>
T_retpoline == <<"r", "e", "t", "p", "o", "l", "i", "n", "e">>
T_staging == <<"s", "t", "a", "g", "i", "n", "g">>
T_depends == <<"d", "e", "p", "e", "n", "d", "s">>
T_srcversion == <<"s", "r", "c", "v", "e", "r", "s", "i", "o", "n">>
T_import_ns == <<"i", "m", "p", "o", "r", "t", "_", "n", "s">>

(***************************************************************************)
(* ParameterType                                                            *)
(***************************************************************************)
Ty(t) == [tag |-> t, s |-> <<>>]
Custom(s) == [tag |-> "Custom", s |-> s]
Unknown == Ty("Unknown")

ParameterType_parse(s) ==
    CASE s = <<"b", "y", "t", "e">> -> Ty("Byte")
      [] s = <<"h", "e", "x", "i", "n", "t">> -> Ty("HexInt")
      [] s = <<"s", "h", "o", "r", "t">> -> Ty("Short")
      [] s = <<"u", "s", "h", "o", "r", "t">> -> Ty("UnsignedShort")
      [] s = <<"i", "n", "t">> -> Ty("Int")
      [] s = <<"u", "i", "n", "t">> -> Ty("UnsignedInt")
      [] s = <<"l", "o", "n", "g">> -> Ty("Long")
      [] s = <<"u", "l", "o", "n", "g">> -> Ty("UnsignedLong")
      [] s = <<"c", "h", "a", "r", "p">> -> Ty("CharPointer")
      [] s = <<"b", "o", "o", "l">> -> Ty("Bool")
      [] s = <<"i", "n", "v", "b", "o", "o", "l">> -> Ty("InvBool")
      [] s = <<"s", "t", "r", "i", "n", "g">> -> Ty("String")
      [] s = <<"u", "l", "l", "o", "n", "g">> -> Ty("UnsignedLongLong")
      [] OTHER -> Custom(s)

(***************************************************************************)
(* The file on disk, and the image ModInfo::read works on.                   *)
(*                                                                         *)
(* A file is an image in some encoding: "raw" (a plain .ko), one of the      *)
(* codecs' streams, or "junk" (a stream no codec accepts). The elf crate's   *)
(* answers on the image are part of the image: whether minimal_parse         *)
(* accepts it (elf), what section_header_by_name(".modinfo") returns (shdr),  *)
(* what section_data returns for that header (sdata), the section's bytes    *)
(* (modinfo), and the end of the image (tail), where a signature may be.     *)
(***************************************************************************)
VALID_COMPRESSION == {"xz", "zst", "gz"}

\* One record of the section followed by its NUL terminator, for every record.
RECURSIVE Bytes(_)
Bytes(recs) ==
    IF recs = <<>> THEN <<>> ELSE Head(recs) \o <<NUL>> \o Bytes(Tail(recs))

Rec(tag, value) == tag \o <<EQ>> \o value

\* size_of::<RawModuleSignature>()
RawModuleSignatureSize == 12

\* The size of the header of a 32-bit ELF file, the shorter of the two
Elf32_Ehdr_size == 52

\* b"~Module signature appended~\n", in ASCII
SIGNATURE_MAGIC ==
    <<126, 77, 111, 100, 117, 108, 101, 32, 115, 105, 103, 110, 97, 116, 117, 114, 101, 32,
      97, 112, 112, 101, 110, 100, 101, 100, 126, 10>>

\* SIGNATURE_MAGIC.len()
SIGNATURE_MAGIC_len == Len(SIGNATURE_MAGIC)

\* <[u8]>::ends_with
ends_with(s, suffix) ==
    /\ Len(s) >= Len(suffix)
    /\ SubSeq(s, Len(s) - Len(suffix) + 1, Len(s)) = suffix

\* Four bytes read as a little-endian u32
u32_from_le(b) == ((b[4] * 256 + b[3]) * 256 + b[2]) * 256 + b[1]

\* u32::from_be of the field as read_unaligned leaves it: the four bytes
\* read as a big-endian u32
u32_from_be(b) == ((b[1] * 256 + b[2]) * 256 + b[3]) * 256 + b[4]

\* A check of the trailer that leaves the padding out
valid_AnyPad(hdr) ==
    /\ hdr.algo = 0
    /\ hdr.hash = 0
    /\ hdr.id_type = 2
    /\ hdr.signer_len = 0
    /\ hdr.key_id_len = 0

\* A trailer is valid if every field has the one value we recognize.
valid(hdr) ==
    /\ hdr.algo = 0
    /\ hdr.hash = 0
    /\ hdr.id_type = 2
    /\ hdr.signer_len = 0
    /\ hdr.key_id_len = 0
    /\ hdr.pad = <<0, 0, 0>>

(***************************************************************************)
(* Outcomes of ModInfo::read: Ok, Err(ModInfoError) or a panic.              *)
(***************************************************************************)
Running == [kind |-> "Running", err |-> "", ctx |-> <<>>]
Ok == [kind |-> "Ok", err |-> "", ctx |-> <<>>]
Err(e) == [kind |-> "Err", err |-> e, ctx |-> <<>>]
InvalidUtf8(ctx) == [kind |-> "Err", err |-> "InvalidUtf8", ctx |-> ctx]
Panic(what) == [kind |-> "Panic", err |-> what, ctx |-> <<>>]

NoInfo == [none |-> TRUE]
EmptyMap == [k \in {} |-> <<>>]

(***************************************************************************)
(* decompress(path, data)                                                   *)
(***************************************************************************)
\* Ok(bytes), Err(DecompressError::Compression) or Err(DecompressError::Unsupported).
\* features are the codecs the build enables, a subset of VALID_COMPRESSION;
\* ext is "" for a path that has no extension.
NoBlob == [enc |-> "none"]

Unsupported == [ok |-> FALSE, err |-> "Unsupported", blob |-> NoBlob]

\* A decompress that takes a file of unknown extension for a plain module
decompress_UnknownIsPlain(features, ext, f) ==
    IF ext \in features
    THEN IF f.enc = ext
         THEN [ok |-> TRUE, err |-> "", blob |-> [enc |-> "raw", image |-> f.image]]
         ELSE [ok |-> FALSE, err |-> "Compression", blob |-> NoBlob]
    ELSE [ok |-> TRUE, err |-> "", blob |-> [enc |-> f.enc, image |-> f.image]]

\* A decompress that tells the codec from the data when the extension is ko
decompress_Sniff(features, ext, f) ==
    IF ext = "" THEN Unsupported
    ELSE IF ext \in features \/ (ext = "ko" /\ f.enc \in features)
         THEN IF f.enc = ext \/ ext = "ko"
              THEN [ok |-> TRUE, err |-> "", blob |-> [enc |-> "raw", image |-> f.image]]
              ELSE [ok |-> FALSE, err |-> "Compression", blob |-> NoBlob]
    ELSE IF ext = "ko"
         THEN [ok |-> TRUE, err |-> "", blob |-> [enc |-> f.enc, image |-> f.image]]
         ELSE Unsupported

\* Lines 958-993. A codec gives the image back from its own stream and fails
\* on every other data.
decompress(features, ext, f) ==
    IF ext = "" THEN Unsupported
    ELSE IF ext \in features
         THEN IF f.enc = ext
              THEN [ok |-> TRUE, err |-> "", blob |-> [enc |-> "raw", image |-> f.image]]
              ELSE [ok |-> FALSE, err |-> "Compression", blob |-> NoBlob]
    ELSE IF ext = "ko"
         THEN [ok |-> TRUE, err |-> "", blob |-> [enc |-> f.enc, image |-> f.image]]
         ELSE Unsupported

\* Display of DecompressError, lines 228-235
DecompressError_to_string(e) ==
    IF e = "Compression" THEN "Error decompressing module"
    ELSE "unknown or unsupported compression"

\* ModInfoError::Compression(message)
Compression(message) == [kind |-> "Err", err |-> "Compression", ctx |-> <<message>>]

(***************************************************************************)
(* The tag=value loop over the section.                                     *)
(***************************************************************************)
\* A push at the front of the Vec
Push_Front(m, key, value) ==
    LET old == IF key \in DOMAIN m THEN m[key] ELSE <<>> IN
    [k \in DOMAIN m \cup {key} |->
        IF k = key THEN (IF value # <<>> THEN <<value>> \o old ELSE old) ELSE m[k]]

\* map.entry(key).or_insert_with(Vec::new), then push of a non-empty value
Push(m, key, value) ==
    LET old == IF key \in DOMAIN m THEN m[key] ELSE <<>> IN
    [k \in DOMAIN m \cup {key} |->
        IF k = key THEN (IF value # <<>> THEN Append(old, value) ELSE old) ELSE m[k]]

\* A loop that takes the type records to come before the description records:
\* it drops a parm record met before any parmtype record.
RECURSIVE TagLoop_TypesFirst(_, _)
TagLoop_TypesFirst(pieces, m) ==
    IF pieces = <<>> THEN [out |-> Running, map |-> m]
    ELSE LET s == Head(pieces)
             u == from_utf8(s)
         IN  IF ~u.ok
             THEN [out |-> InvalidUtf8(SubSeq(s, 1, u.valid_up_to)), map |-> m]
             ELSE IF s = <<>> THEN TagLoop_TypesFirst(Tail(pieces), m)
             ELSE LET kv == split_once(s, EQ) IN
                  IF ~kv.some THEN [out |-> Err("InvalidParameter"), map |-> m]
                  ELSE IF kv.v[1] = T_parm /\ T_parmtype \notin DOMAIN m
                       THEN TagLoop_TypesFirst(Tail(pieces), m)
                       ELSE TagLoop_TypesFirst(Tail(pieces), Push(m, kv.v[1], kv.v[2]))

\* A loop that passes over a record without '=' as it does over an empty one
RECURSIVE TagLoop_SkipNoEq(_, _)
TagLoop_SkipNoEq(pieces, m) ==
    IF pieces = <<>> THEN [out |-> Running, map |-> m]
    ELSE LET s == Head(pieces)
             u == from_utf8(s)
         IN  IF ~u.ok
             THEN [out |-> InvalidUtf8(SubSeq(s, 1, u.valid_up_to)), map |-> m]
             ELSE LET kv == split_once(s, EQ) IN
                  IF ~kv.some THEN TagLoop_SkipNoEq(Tail(pieces), m)
                  ELSE TagLoop_SkipNoEq(Tail(pieces), Push(m, kv.v[1], kv.v[2]))

\* Lines 816-837
RECURSIVE TagLoop(_, _)
TagLoop(pieces, m) ==
    IF pieces = <<>> THEN [out |-> Running, map |-> m]
    ELSE LET s == Head(pieces)
             u == from_utf8(s)
         IN  IF ~u.ok
             THEN [out |-> InvalidUtf8(SubSeq(s, 1, u.valid_up_to)), map |-> m]
             ELSE IF s = <<>> THEN TagLoop(Tail(pieces), m)
             ELSE LET kv == split_once(s, EQ) IN
                  IF ~kv.some THEN [out |-> Err("InvalidParameter"), map |-> m]
                  ELSE TagLoop(Tail(pieces), Push(m, kv.v[1], kv.v[2]))

\* map.remove(key).unwrap_or_default()
remove_or_default(m, key) == IF key \in DOMAIN m THEN m[key] ELSE <<>>

(***************************************************************************)
(* The parmtype loop and the parm loop over x, the map                      *)
(* name -> (type, description lines).                                       *)
(***************************************************************************)
Put(xm, name, entry) ==
    [k \in DOMAIN xm \cup {name} |-> IF k = name THEN entry ELSE xm[k]]

\* A parmtype loop that lets a second type of a name replace the first
RECURSIVE ParmTypeLoop_Overwrite(_, _)
ParmTypeLoop_Overwrite(v, xm) ==
    IF v = <<>> THEN [out |-> Running, x |-> xm]
    ELSE LET kv == split_once(Head(v), COLON) IN
         IF ~kv.some THEN [out |-> Err("InvalidParameter"), x |-> xm]
         ELSE ParmTypeLoop_Overwrite(Tail(v),
                  Put(xm, kv.v[1], [ty |-> ParameterType_parse(kv.v[2]), desc |-> <<>>]))

\* Lines 848-857
RECURSIVE ParmTypeLoop(_, _)
ParmTypeLoop(v, xm) ==
    IF v = <<>> THEN [out |-> Running, x |-> xm]
    ELSE LET kv == split_once(Head(v), COLON) IN
         IF ~kv.some THEN [out |-> Err("InvalidParameter"), x |-> xm]
         ELSE IF kv.v[1] \in DOMAIN xm
              THEN [out |-> Err("InvalidParameter"), x |-> xm]
              ELSE ParmTypeLoop(Tail(v),
                       Put(xm, kv.v[1], [ty |-> ParameterType_parse(kv.v[2]), desc |-> <<>>]))

\* A parm loop that keeps only the last description line of a name
RECURSIVE ParmLoop_Replace(_, _)
ParmLoop_Replace(v, xm) ==
    IF v = <<>> THEN [out |-> Running, x |-> xm]
    ELSE LET kv == split_once(Head(v), COLON) IN
         IF ~kv.some THEN [out |-> Err("InvalidParameter"), x |-> xm]
         ELSE ParmLoop_Replace(Tail(v),
                  Put(xm, kv.v[1], [ty |-> Unknown, desc |-> <<kv.v[2]>>]))

\* A parm loop that describes the parameters that have a type only
RECURSIVE ParmLoop_TypedOnly(_, _)
ParmLoop_TypedOnly(v, xm) ==
    IF v = <<>> THEN [out |-> Running, x |-> xm]
    ELSE LET kv == split_once(Head(v), COLON) IN
         IF ~kv.some THEN [out |-> Err("InvalidParameter"), x |-> xm]
         ELSE IF kv.v[1] \notin DOMAIN xm THEN ParmLoop_TypedOnly(Tail(v), xm)
         ELSE ParmLoop_TypedOnly(Tail(v),
                  Put(xm, kv.v[1], [ty |-> xm[kv.v[1]].ty,
                                    desc |-> Append(xm[kv.v[1]].desc, kv.v[2])]))

\* Lines 861-869
RECURSIVE ParmLoop(_, _)
ParmLoop(v, xm) ==
    IF v = <<>> THEN [out |-> Running, x |-> xm]
    ELSE LET kv == split_once(Head(v), COLON) IN
         IF ~kv.some THEN [out |-> Err("InvalidParameter"), x |-> xm]
         ELSE LET old == IF kv.v[1] \in DOMAIN xm THEN xm[kv.v[1]]
                         ELSE [ty |-> Unknown, desc |-> <<>>]
              IN  ParmLoop(Tail(v),
                      Put(xm, kv.v[1], [ty |-> old.ty, desc |-> Append(old.desc, kv.v[2])]))

\* One ModuleParameter of x.
ModuleParameter(xm, name) ==
    [name |-> name, ty |-> xm[name].ty, description |-> join(xm[name].desc, NL)]

\* x.into_iter(): every entry once, in an order the HashMap chooses.
Orders(S) ==
    {o \in [1..Cardinality(S) -> S] : \A i, j \in 1..Cardinality(S) : i # j => o[i] # o[j]}

(***************************************************************************)
(* The helpers of the field extraction.                                     *)
(***************************************************************************)
\* A y_n that takes every value
y_n_panics_Never(s) == FALSE

\* y_n panics (unimplemented!) on "0" and "1"
y_n_panics(s) == s = <<"0">> \/ s = <<"1">>

\* A y_n that knows the capital letter only
y_n_UpperOnly(s) == s = <<"Y">>

y_n(s) == s = <<"Y">> \/ s = <<"y">>

\* one: map.remove(key).map(|mut v| v.remove(0)).unwrap_or_default();
\* Vec::remove(0) panics on an empty Vec.
one_panics(m, key) == key \in DOMAIN m /\ m[key] = <<>>

one(m, key) == IF key \in DOMAIN m /\ m[key] # <<>> THEN m[key][1] ELSE <<>>

more(m, key) == remove_or_default(m, key)

\* A comma that does not split
comma_NoSplit(m, key) ==
    LET v == remove_or_default(m, key) IN
    <<IF v = <<>> THEN <<>> ELSE v[Len(v)]>>

\* comma: the last value of key, or "", split on ','
comma(m, key) ==
    LET v == remove_or_default(m, key) IN
    split(IF v = <<>> THEN <<>> ELSE v[Len(v)], COMMA)

\* The single-valued and the boolean tags in the order the struct expression
\* evaluates them; the first panic is the one that happens.
OneOrder ==
    << T_license, T_description, T_version, T_vermagic, T_name, T_intree,
       T_retpoline, T_staging, T_srcversion >>

BoolTags == {T_intree, T_retpoline, T_staging}

StepPanic(m, key) ==
    IF one_panics(m, key) THEN "remove(0) of an empty Vec"
    ELSE IF key \in BoolTags /\ y_n_panics(one(m, key)) THEN "ambiguous Bool"
    ELSE ""

RECURSIVE FirstPanic(_, _)
FirstPanic(m, i) ==
    IF i > Len(OneOrder) THEN ""
    ELSE IF StepPanic(m, OneOrder[i]) # "" THEN StepPanic(m, OneOrder[i])
    ELSE FirstPanic(m, i + 1)

\* The struct expression Self { .. }
ModInfo(m, params, sig) ==
    [ alias |-> more(m, T_alias),
      soft_dependencies |-> more(m, T_softdep),
      license |-> one(m, T_license),
      authors |-> more(m, T_author),
      description |-> one(m, T_description),
      version |-> one(m, T_version),
      firmware |-> more(m, T_firmware),
      version_magic |-> one(m, T_vermagic),
      name |-> one(m, T_name),
      in_tree |-> y_n(one(m, T_intree)),
      retpoline |-> y_n(one(m, T_retpoline)),
      staging |-> y_n(one(m, T_staging)),
      dependencies |-> comma(m, T_depends),
      source_checksum |-> one(m, T_srcversion),
      parameters |-> params,
      signature |-> sig,
      imports |-> more(m, T_import_ns) ]

(***************************************************************************)
(* The signature at the end of the image.                                   *)
(***************************************************************************)
\* The signature blob as the der and cms crates decode it: whether
\* ContentInfo::from_der accepts it (der), its content type, whether the
\* content decodes as SignedData (sd), and the SignedData's digest algorithms
\* (object identifiers) and signer infos.
Cms(der, content_type, sd, digest_algorithms, signer_infos) ==
    [der |-> der, content_type |-> content_type, sd |-> sd,
     digest_algorithms |-> digest_algorithms, signer_infos |-> signer_infos]

ID_SIGNED_DATA == "signedData"

SignerInfo(sid, digest_alg) == [sid |-> sid, digest_alg |-> digest_alg]

\* ModuleSignatureHash::parse
ModuleSignatureHash_parse(oid) ==
    CASE oid = "ID_SHA_1" -> "Sha1"
      [] oid = "ID_SHA_224" -> "Sha224"
      [] oid = "ID_SHA_256" -> "Sha256"
      [] oid = "ID_SHA_384" -> "Sha384"
      [] oid = "ID_SHA_512" -> "Sha512"
      [] OTHER -> "Unknown"

\* The bytes of a blob. DER is modelled by a code of its own: the tag of a
\* SEQUENCE (48), a byte for the content type, one for whether the content is
\* a SignedData, the number of digest algorithms and a byte for each, the
\* number of signer infos and two bytes for each (signer identifier, digest
\* algorithm); the bytes after that are the signature octets.
DER_SEQUENCE == 48

ContentTypes == <<"data", ID_SIGNED_DATA>>

ObjectIdentifiers == <<"ID_SHA_1", "ID_SHA_224", "ID_SHA_256", "ID_SHA_384", "ID_SHA_512", "1.2.3">>

SignerIdentifiers == <<"IssuerAndSerialNumber", "SubjectKeyIdentifier">>

\* The index of v in the table
CodeOf(table, v) == CHOOSE i \in 1..Len(table) : table[i] = v

\* ContentInfo::from_der, content.to_der and SignedData::from_der of a blob
ContentInfo_from_der(b) ==
    LET NotDer == Cms(FALSE, "", FALSE, <<>>, <<>>)
        nd == b[4]
        ns == b[5 + nd]
    IN  IF Len(b) < 5 \/ b[1] # DER_SEQUENCE THEN NotDer
        ELSE IF b[2] \notin 1..Len(ContentTypes) \/ b[3] \notin {0, 1} THEN NotDer
        ELSE IF Len(b) < 5 + nd THEN NotDer
        ELSE IF Len(b) < 5 + nd + 2 * ns THEN NotDer
        ELSE IF \E i \in 1..nd : b[4 + i] \notin 1..Len(ObjectIdentifiers) THEN NotDer
        ELSE IF \E i \in 1..ns : \/ b[4 + nd + 2 * i] \notin 1..Len(SignerIdentifiers)
                                  \/ b[5 + nd + 2 * i] \notin 1..Len(ObjectIdentifiers)
             THEN NotDer
        ELSE Cms(TRUE, ContentTypes[b[2]], b[3] = 1,
                 [i \in 1..nd |-> ObjectIdentifiers[b[4 + i]]],
                 [i \in 1..ns |-> SignerInfo(SignerIdentifiers[b[4 + nd + 2 * i]],
                                             ObjectIdentifiers[b[5 + nd + 2 * i]])])

\* The ModuleSignature of a blob
ModuleSignature(signature) ==
    [signature |-> signature,
     signed_data |-> [digest_algorithms |-> ContentInfo_from_der(signature).digest_algorithms,
                      signer_infos |-> ContentInfo_from_der(signature).signer_infos]]

\* A new that takes the first signer of several
ModuleSignature_new_FirstSigner(signature) ==
    LET cms == ContentInfo_from_der(signature)
        Reject(e) == [out |-> Err(e), sig |-> None]
    IN  IF ~cms.der \/ cms.content_type # ID_SIGNED_DATA \/ ~cms.sd
        THEN Reject("InvalidSignature")
        ELSE IF Len(cms.digest_algorithms) > 1 THEN Reject("UnsupportedSignature")
        ELSE IF Len(cms.signer_infos) >= 1 /\ cms.signer_infos[1].sid = "IssuerAndSerialNumber"
             THEN [out |-> Running, sig |-> Some(ModuleSignature(signature))]
             ELSE Reject("UnsupportedSignature")

\* ModuleSignature::new(signature), lines 1062-1091
ModuleSignature_new(signature) ==
    LET cms == ContentInfo_from_der(signature)
        Reject(e) == [out |-> Err(e), sig |-> None]
    IN  IF ~cms.der THEN Reject("InvalidSignature")
        ELSE IF cms.content_type # ID_SIGNED_DATA THEN Reject("InvalidSignature")
        ELSE IF ~cms.sd THEN Reject("InvalidSignature")
        ELSE IF Len(cms.digest_algorithms) > 1 THEN Reject("UnsupportedSignature")
        ELSE IF Len(cms.signer_infos) > 1 THEN Reject("UnsupportedSignature")
        ELSE IF Len(cms.signer_infos) >= 1 /\ cms.signer_infos[1].sid = "IssuerAndSerialNumber"
             THEN [out |-> Running, sig |-> Some(ModuleSignature(signature))]
             ELSE Reject("UnsupportedSignature")

\* ModuleSignature::raw
raw(sig) == sig.signature

ModuleSigner(f) == [signer |-> f]

\* ModuleSignature::signers, collected
signers(sig) ==
    [i \in 1..Len(sig.signed_data.signer_infos) |-> ModuleSigner(sig.signed_data.signer_infos[i])]

\* ModuleSignature::hashes, collected
hashes(sig) ==
    [i \in 1..Len(sig.signed_data.digest_algorithms) |->
        ModuleSignatureHash_parse(sig.signed_data.digest_algorithms[i])]

\* read_unaligned of a RawModuleSignature at the start of b, its sig_len
\* decoded
RawModuleSignature_read(b) ==
    [algo |-> b[1], hash |-> b[2], id_type |-> b[3], signer_len |-> b[4],
     key_id_len |-> b[5], pad |-> <<b[6], b[7], b[8]>>,
     sig_len |-> u32_from_be(<<b[9], b[10], b[11], b[12]>>)]

\* The offset of a trailer that stands before a marker of 29 bytes
TrailerOffset_Marker29(len) == len - RawModuleSignatureSize - 29

\* Line 883: img.len() - size_of::<RawModuleSignature>() - SIGNATURE_MAGIC.len(),
\* negative where the subtraction underflows
TrailerOffset(len) == len - RawModuleSignatureSize - SIGNATURE_MAGIC_len

\* A stage that reads the trailer of every image
SignatureStage_NoMagicCheck(t, overflow_checks) ==
    LET len == Len(t.bytes)
        sig_hdr_off == TrailerOffset(len)
        hdr == RawModuleSignature_read(SubSeq(t.bytes, sig_hdr_off + 1, len))
    IN  IF sig_hdr_off < 0 THEN [out |-> Running, sig |-> None]
        ELSE IF ~valid(hdr) THEN [out |-> Err("InvalidSignature"), sig |-> None]
        ELSE IF hdr.sig_len > sig_hdr_off THEN [out |-> Running, sig |-> None]
        ELSE [out |-> Running,
              sig |-> Some(ModuleSignature(SubSeq(t.bytes, sig_hdr_off - hdr.sig_len + 1, sig_hdr_off)))]

\* Lines 881-906 on the image t.bytes. With overflow checks (a debug build)
\* a subtraction that underflows panics; without them it wraps, and img.get
\* of the wrapped range is None.
SignatureStage(t, overflow_checks) ==
    LET len == Len(t.bytes)
        sig_hdr_off == TrailerOffset(len)
        sig == SubSeq(t.bytes, sig_hdr_off + 1, len)
        hdr == RawModuleSignature_read(sig)
    IN  IF sig_hdr_off < 0 /\ overflow_checks
        THEN [out |-> Panic("attempt to subtract with overflow"), sig |-> None]
        ELSE IF ~ends_with(t.bytes, SIGNATURE_MAGIC) THEN [out |-> Running, sig |-> None]
        ELSE IF sig_hdr_off < 0 THEN [out |-> Running, sig |-> None]
        ELSE IF Len(sig) < RawModuleSignatureSize
        THEN [out |-> Panic("assertion failed"), sig |-> None]
        ELSE IF ~valid(hdr) THEN [out |-> Err("InvalidSignature"), sig |-> None]
        ELSE IF hdr.sig_len > sig_hdr_off
             THEN IF overflow_checks
                  THEN [out |-> Panic("attempt to subtract with overflow"), sig |-> None]
                  ELSE [out |-> Running, sig |-> None]
             ELSE ModuleSignature_new(SubSeq(t.bytes, sig_hdr_off - hdr.sig_len + 1, sig_hdr_off))

(***************************************************************************)
(* ModInfo::read(path) as a state machine: one action per stage.            *)
(*                                                                         *)
(* input: the codecs the build enables, the path's extension, whether        *)
(* fs::read succeeds, the file, and whether the build checks integer        *)
(* overflow. The other variables are the locals of read, out its outcome    *)
(* and info the ModInfo it returns.                                         *)
(***************************************************************************)
VARIABLES input, pc, img, data, map, parm, x, parameters, signature, out, info

\* The state of the operations around read: the call in progress with its
\* arguments (call), what the operation finds on the system (disk), the
\* ModuleFile it builds or works on (mf) and what it returns (ret).
VARIABLES call, disk, mf, ret

readvars == <<input, pc, img, data, map, parm, x, parameters, signature, out, info>>

callvars == <<call, disk, mf, ret>>

vars == <<input, pc, img, data, map, parm, x, parameters, signature, out, info,
          call, disk, mf, ret>>

\* No ModuleFile
NoModuleFile == [none |-> TRUE]

Without(m, keys) == [k \in DOMAIN m \ keys |-> m[k]]

\* Lines 757-761: fs::read, then decompress; the error of either becomes
\* ModInfoError::Compression of its message.
Decompress ==
    /\ pc = "read"
    /\ LET r == decompress(input.features, input.ext, input.file) IN
       IF ~input.fsread
       THEN /\ img' = img
            /\ pc' = "done"
            /\ out' = Compression("io error")
       ELSE IF r.ok
       THEN /\ img' = r.blob
            /\ pc' = "elf"
            /\ out' = out
       ELSE /\ img' = img
            /\ pc' = "done"
            /\ out' = Compression(DecompressError_to_string(r.err))
    /\ UNCHANGED callvars
    /\ UNCHANGED <<input, data, map, parm, x, parameters, signature, info>>

\* A parse that takes an image of any length
ElfBytes_minimal_parse_AnyLength(image) == image.elf = "ok"

\* ElfBytes::minimal_parse: the image has the bytes of an ELF header, and
\* they parse
ElfBytes_minimal_parse(image) ==
    /\ Len(image.tail.bytes) >= Elf32_Ehdr_size
    /\ image.elf = "ok"

\* Lines 763-764: ElfBytes::minimal_parse
ElfParse ==
    /\ pc = "elf"
    /\ IF img.enc = "raw" /\ ElfBytes_minimal_parse(img.image)
       THEN pc' = "shdr" /\ out' = out
       ELSE pc' = "done" /\ out' = Err("InvalidModule")
    /\ UNCHANGED callvars
    /\ UNCHANGED <<input, img, data, map, parm, x, parameters, signature, info>>

\* A lookup that takes a missing section for an empty one
SectionHeader_EmptyWhenMissing ==
    /\ pc = "shdr"
    /\ CASE img.image.shdr \in {"found", "none"} -> pc' = "sdata" /\ out' = out
         [] OTHER -> pc' = "done" /\ out' = Err("InvalidModule")
    /\ UNCHANGED callvars
    /\ UNCHANGED <<input, img, data, map, parm, x, parameters, signature, info>>

\* Lines 766-769: section_header_by_name(".modinfo")
SectionHeader ==
    /\ pc = "shdr"
    /\ CASE img.image.shdr = "found" -> pc' = "sdata" /\ out' = out
         [] img.image.shdr = "none" -> pc' = "done" /\ out' = Err("MissingInfo")
         [] OTHER -> pc' = "done" /\ out' = Err("InvalidModule")
    /\ UNCHANGED callvars
    /\ UNCHANGED <<input, img, data, map, parm, x, parameters, signature, info>>

\* Lines 771-778: section_data, and the unimplemented! on a compressed section
SectionData ==
    /\ pc = "sdata"
    /\ CASE img.image.sdata = "plain" ->
              /\ data' = img.image.modinfo
              /\ pc' = "tags"
              /\ out' = out
         [] img.image.sdata = "compressed" ->
              /\ data' = data
              /\ pc' = "done"
              /\ out' = Panic("Module .modinfo section compressed")
         [] OTHER ->
              /\ data' = data
              /\ pc' = "done"
              /\ out' = Err("InvalidModule")
    /\ UNCHANGED callvars
    /\ UNCHANGED <<input, img, map, parm, x, parameters, signature, info>>

\* Lines 781-837: the loop over data.split(NUL)
TagRecords ==
    /\ pc = "tags"
    /\ LET r == TagLoop(split(data, NUL), EmptyMap) IN
       /\ map' = r.map
       /\ IF r.out = Running
          THEN pc' = "parmtype" /\ out' = out
          ELSE pc' = "done" /\ out' = r.out
    /\ UNCHANGED callvars
    /\ UNCHANGED <<input, img, data, parm, x, parameters, signature, info>>

\* Lines 841-857: both removes, then the parmtype loop
ParmTypes ==
    /\ pc = "parmtype"
    /\ LET parm_type == remove_or_default(map, T_parmtype)
           r == ParmTypeLoop(parm_type, EmptyMap)
       IN  /\ parm' = remove_or_default(map, T_parm)
           /\ map' = Without(map, {T_parmtype, T_parm})
           /\ x' = r.x
           /\ IF r.out = Running
              THEN pc' = "parm" /\ out' = out
              ELSE pc' = "done" /\ out' = r.out
    /\ UNCHANGED callvars
    /\ UNCHANGED <<input, img, data, parameters, signature, info>>

\* Lines 859-869: the parm loop
Parms ==
    /\ pc = "parm"
    /\ LET r == ParmLoop(parm, x) IN
       /\ x' = r.x
       /\ IF r.out = Running
          THEN pc' = "collect" /\ out' = out
          ELSE pc' = "done" /\ out' = r.out
    /\ UNCHANGED callvars
    /\ UNCHANGED <<input, img, data, map, parm, parameters, signature, info>>

\* Lines 871-879: x.into_iter().map(..).collect()
Collect ==
    /\ pc = "collect"
    /\ \E o \in Orders(DOMAIN x) :
          parameters' = [i \in 1..Len(o) |-> ModuleParameter(x, o[i])]
    /\ pc' = "sig"
    /\ UNCHANGED callvars
    /\ UNCHANGED <<input, img, data, map, parm, x, signature, out, info>>

\* A stage that reads on without the signature it cannot use
Signature_Tolerant ==
    /\ pc = "sig"
    /\ LET r == SignatureStage(img.image.tail, input.overflow_checks) IN
       /\ signature' = r.sig
       /\ IF r.out.kind # "Panic"
          THEN pc' = "fields" /\ out' = out
          ELSE pc' = "done" /\ out' = r.out
    /\ UNCHANGED callvars
    /\ UNCHANGED <<input, img, data, map, parm, x, parameters, info>>

\* Lines 881-906
Signature ==
    /\ pc = "sig"
    /\ LET r == SignatureStage(img.image.tail, input.overflow_checks) IN
       /\ signature' = r.sig
       /\ IF r.out = Running
          THEN pc' = "fields" /\ out' = out
          ELSE pc' = "done" /\ out' = r.out
    /\ UNCHANGED callvars
    /\ UNCHANGED <<input, img, data, map, parm, x, parameters, info>>

\* Lines 908-952: the struct expression, which panics in one and in y_n
Fields ==
    /\ pc = "fields"
    /\ pc' = "done"
    /\ LET p == FirstPanic(map, 1) IN
       IF p # ""
       THEN out' = Panic(p) /\ info' = info
       ELSE out' = Ok /\ info' = ModInfo(map, parameters, signature)
    /\ UNCHANGED callvars
    /\ UNCHANGED <<input, img, data, map, parm, x, parameters, signature>>

Next ==
    \/ Decompress
    \/ ElfParse
    \/ SectionHeader
    \/ SectionData
    \/ TagRecords
    \/ ParmTypes
    \/ Parms
    \/ Collect
    \/ Signature
    \/ Fields

(***************************************************************************)
(* The inputs the specifications draw.                                      *)
(***************************************************************************)
SeqsUpTo(S, n) == UNION {[1..k -> S] : k \in 0..n}

A == <<"a">>
B == <<"b">>
F == <<"f">>
G == <<"g">>

\* img.len() of the images drawn
ImgLen == 100

Hdr(algo, hash, id_type, signer_len, key_id_len, pad, sig_len) ==
    [algo |-> algo, hash |-> hash, id_type |-> id_type, signer_len |-> signer_len,
     key_id_len |-> key_id_len, pad |-> pad, sig_len |-> sig_len]

\* Signature blobs: bytes that are no DER, a SignedData of one digest
\* algorithm and one signer named by issuer and serial number, and one of two
\* signers
CmsNotDer == Cms(FALSE, "", FALSE, <<>>, <<>>)

IssuerAndSerial == SignerInfo("IssuerAndSerialNumber", "ID_SHA_256")

CmsOk == Cms(TRUE, ID_SIGNED_DATA, TRUE, <<"ID_SHA_256">>, <<IssuerAndSerial>>)

CmsTwoSigners ==
    Cms(TRUE, ID_SIGNED_DATA, TRUE, <<"ID_SHA_256">>, <<IssuerAndSerial, IssuerAndSerial>>)

\* n zero bytes
Zeros(n) == [i \in 1..n |-> 0]

\* A u32 as four bytes, the most significant first
to_be_bytes(n) == <<n \div 16777216, (n \div 65536) % 256, (n \div 256) % 256, n % 256>>

\* The bytes of a trailer
TrailerBytes(hdr) ==
    <<hdr.algo, hdr.hash, hdr.id_type, hdr.signer_len, hdr.key_id_len>> \o hdr.pad
        \o to_be_bytes(hdr.sig_len)

\* The bytes of a blob of blob_len bytes, in the code ContentInfo_from_der
\* reads
DerBytes(cms, blob_len) ==
    LET head == IF ~cms.der THEN <<255>>
                ELSE <<DER_SEQUENCE, CodeOf(ContentTypes, cms.content_type),
                       IF cms.sd THEN 1 ELSE 0, Len(cms.digest_algorithms)>>
                     \o [i \in 1..Len(cms.digest_algorithms) |->
                            CodeOf(ObjectIdentifiers, cms.digest_algorithms[i])]
                     \o <<Len(cms.signer_infos)>>
                     \o [i \in 1..(2 * Len(cms.signer_infos)) |->
                            IF i % 2 = 1
                            THEN CodeOf(SignerIdentifiers, cms.signer_infos[(i + 1) \div 2].sid)
                            ELSE CodeOf(ObjectIdentifiers, cms.signer_infos[i \div 2].digest_alg)]
    IN  head \o Zeros(blob_len - Len(head))

\* The magic with its last byte, the line feed, missing and a zero before it
NotMagic == <<0>> \o SubSeq(SIGNATURE_MAGIC, 1, SIGNATURE_MAGIC_len - 1)

\* An image of len bytes: the object (bytes of value 127), the blob, the
\* trailer and the magic or what stands in its place.  magic, hdr and cms
\* record what the image was assembled from.
Assemble(magic, hdr, cms, blob_len, len) ==
    [magic |-> magic, len |-> len, hdr |-> hdr, cms |-> cms,
     bytes |-> [i \in 1..(len - blob_len - RawModuleSignatureSize - SIGNATURE_MAGIC_len) |-> 127]
                 \o DerBytes(cms, blob_len) \o TrailerBytes(hdr)
                 \o (IF magic THEN SIGNATURE_MAGIC ELSE NotMagic)]

SigLenFits == ImgLen - RawModuleSignatureSize - SIGNATURE_MAGIC_len

\* An image that does not end with the magic
NoSig == Assemble(FALSE, Hdr(0, 0, 0, 0, 0, <<0, 0, 0>>, 0), CmsNotDer, SigLenFits, ImgLen)

\* A signed image whose blob is all that stands before the trailer
Signed(hdr, cms) == Assemble(TRUE, hdr, cms, SigLenFits, ImgLen)

\* An image with the bytes of a signed one but for the magic
Unsigned(hdr, cms) == Assemble(FALSE, hdr, cms, SigLenFits, ImgLen)

Tails ==
    { NoSig,
      Signed(Hdr(0, 0, 2, 0, 0, <<0, 0, 0>>, SigLenFits), CmsOk),
      Signed(Hdr(0, 0, 2, 0, 0, <<0, 0, 0>>, SigLenFits), CmsNotDer),
      Signed(Hdr(0, 0, 2, 0, 0, <<0, 0, 0>>, SigLenFits), CmsTwoSigners),
      Signed(Hdr(0, 0, 2, 0, 0, <<0, 0, 0>>, SigLenFits + 1), CmsOk),
      Signed(Hdr(1, 0, 2, 0, 0, <<0, 0, 0>>, SigLenFits), CmsOk),
      Signed(Hdr(0, 0, 1, 0, 0, <<0, 0, 0>>, SigLenFits), CmsOk),
      Signed(Hdr(0, 0, 2, 0, 0, <<0, 0, 1>>, SigLenFits), CmsOk) }

Image(elf, shdr, sdata, recs, tail) ==
    [elf |-> elf, shdr |-> shdr, sdata |-> sdata, recs |-> recs,
     modinfo |-> Bytes(recs), tail |-> tail]

\* A build with every codec enabled reading a file
Input(ext, fsread, enc, image, oc) ==
    [features |-> VALID_COMPRESSION, ext |-> ext, fsread |-> fsread, overflow_checks |-> oc,
     file |-> [enc |-> enc, image |-> image]]

\* A plain .ko that is a valid ELF object with an uncompressed .modinfo
Plain(recs, tail, oc) ==
    Input("ko", TRUE, "raw", Image("ok", "found", "plain", recs, tail), oc)

Exts == {"ko", "xz", "gz", "zst", "txt", ""}
Encs == {"raw", "xz", "gz", "zst", "junk"}

MainRecs ==
    { Rec(T_name, A), Rec(T_version, <<>>), Rec(T_intree, <<"1">>),
      Rec(T_intree, <<"Y">>), Rec(T_parmtype, F \o <<COLON, "i", "n", "t">>),
      <<"x">>, <<"a", xFF>>, <<>> }

\* Every file and ELF outcome with one section, and every section and end
\* of image in a plain .ko.
MainInputs ==
    { Input(e, r, c, Image(elf, sh, sd, <<Rec(T_name, A)>>, NoSig), TRUE) :
        e \in Exts, r \in BOOLEAN, c \in Encs, elf \in {"ok", "bad"},
        sh \in {"found", "none", "err"}, sd \in {"plain", "compressed", "err"} }
    \cup
    { Plain(recs, t, oc) : recs \in SeqsUpTo(MainRecs, MaxRecs), t \in Tails, oc \in BOOLEAN }

\* The variables of a read before it starts
InitRead(inputs) ==
    /\ input \in inputs
    /\ pc = "read"
    /\ img = NoBlob
    /\ data = <<>>
    /\ map = EmptyMap
    /\ parm = <<>>
    /\ x = EmptyMap
    /\ parameters = <<>>
    /\ signature = None
    /\ out = Running
    /\ info = NoInfo

InitWith(inputs) ==
    /\ InitRead(inputs)
    /\ call = [op |-> "read"]
    /\ disk = <<>>
    /\ mf = NoModuleFile
    /\ ret = Running

Init == InitWith(MainInputs)

Spec == Init /\ [][Next]_vars

(***************************************************************************)
(* Specifications over sections of one kind of record each, all in a plain  *)
(* .ko without a signature.                                                 *)
(***************************************************************************)
Sections(R) == {Plain(rs, NoSig, TRUE) : rs \in SeqsUpTo(R, MaxRecs)}

\* The multi-valued tags
MultiTags == {T_alias, T_author, T_firmware, T_softdep, T_import_ns}

MultiRecs ==
    {Rec(t, v) : t \in MultiTags, v \in {A, B}} \cup {Rec(T_alias, <<>>), <<>>}

InitMulti == InitWith(Sections(MultiRecs))

SpecMulti == InitMulti /\ [][Next]_vars

\* parm and parmtype records of the parameters f and g, among other records
T_int == <<"i", "n", "t">>
T_bool == <<"b", "o", "o", "l">>

ParmRecs ==
    { Rec(T_parmtype, F \o <<COLON>> \o T_int),
      Rec(T_parmtype, F \o <<COLON, "x">>),
      Rec(T_parmtype, G \o <<COLON>> \o T_bool),
      Rec(T_parm, F \o <<COLON, "d">>),
      Rec(T_parm, F \o <<COLON, "e", COLON>>),
      Rec(T_parm, F \o <<COLON>>),
      Rec(T_parm, G \o <<COLON, "d">>),
      Rec(T_parm, F),
      Rec(T_alias, A),
      Rec(T_alias, <<xFF>>),
      <<"x">>,
      <<>> }

InitParm == InitWith(Sections(ParmRecs))

SpecParm == InitParm /\ [][Next]_vars

\* The boolean tags
BoolRecs ==
    {Rec(T_intree, v) : v \in {<<"0">>, <<"1">>, <<"Y">>, <<"y">>, <<"N">>, <<"n">>, <<"x">>, <<>>}}
    \cup {Rec(T_retpoline, v) : v \in {<<"1">>, <<"Y">>}}
    \cup {Rec(T_staging, v) : v \in {<<"0">>, <<"n">>}}
    \cup {Rec(T_name, A)}

InitBool == InitWith(Sections(BoolRecs))

SpecBool == InitBool /\ [][Next]_vars

\* The single-valued tags
SingleRecs ==
    {Rec(T_name, v) : v \in {<<>>, A, B}}
    \cup {Rec(T_version, v) : v \in {<<>>, A}}
    \cup {Rec(T_description, v) : v \in {<<>>, B}}
    \cup {Rec(T_license, A), Rec(T_vermagic, A), Rec(T_srcversion, B), <<>>}

InitSingle == InitWith(Sections(SingleRecs))

SpecSingle == InitSingle /\ [][Next]_vars

\* depends and softdep
DependsRecs ==
    {Rec(T_depends, v) : v \in {<<>>, A, B, <<"a", COMMA, "b">>, <<"b", COMMA, COMMA, "a">>, <<COMMA>>}}
    \cup {Rec(T_softdep, v) : v \in {A, <<"a", COMMA, "b">>}}
    \cup {Rec(T_name, A), <<>>}

InitDepends == InitWith(Sections(DependsRecs))

SpecDepends == InitDepends /\ [][Next]_vars

\* Every build, extension and encoding of the file, over images that parse
\* and images that do not
Features == SUBSET VALID_COMPRESSION

DecompressInputs ==
    { [Input(e, r, c, Image(elf, "found", "plain", rs, NoSig), TRUE) EXCEPT !.features = fs] :
        fs \in Features, e \in Exts \cup {"KO", "lz4"}, r \in BOOLEAN, c \in Encs,
        elf \in {"ok", "bad"}, rs \in {<<Rec(T_name, A)>>, <<Rec(T_parm, F \o <<COLON, "d">>)>>} }

InitDecompress == InitWith(DecompressInputs)

SpecDecompress == InitDecompress /\ [][Next]_vars

\* Signed images: every trailer of the field values below, over every
\* signature blob of up to two digest algorithms and two signers, in a
\* plain .ko whose section parses; and the ends of image of Tails, and
\* ends without the magic, under sections that parse, fail and panic.
Hdrs ==
    { Hdr(algo, hash, id_type, signer_len, key_id_len, pad, sig_len) :
        algo \in {0, 1}, hash \in {0, 1}, id_type \in {1, 2}, signer_len \in {0, 1},
        key_id_len \in {0, 1}, pad \in {<<0, 0, 0>>, <<0, 1, 0>>},
        sig_len \in {SigLenFits} }

Oids == {"ID_SHA_256", "1.2.3"}

SignerInfos == {SignerInfo(sid, "ID_SHA_256") : sid \in {"IssuerAndSerialNumber", "SubjectKeyIdentifier"}}

CmsBlobs ==
    { CmsNotDer, Cms(TRUE, "data", FALSE, <<>>, <<>>), Cms(TRUE, ID_SIGNED_DATA, FALSE, <<>>, <<>>) }
    \cup { Cms(TRUE, ID_SIGNED_DATA, TRUE, d, si) :
              d \in SeqsUpTo(Oids, 2), si \in SeqsUpTo(SignerInfos, 2) }

SigRecs == { <<Rec(T_name, A)>>, <<Rec(T_name, A), <<"x">>>>, <<Rec(T_version, <<>>)>>, <<>> }

SigInputs ==
    { Plain(<<Rec(T_name, A)>>, Signed(h, c), TRUE) : h \in Hdrs, c \in CmsBlobs }
    \cup { Plain(rs, t, oc) : rs \in SigRecs, t \in Tails, oc \in BOOLEAN }
    \cup { Plain(rs, Unsigned(h, c), oc) :
              rs \in SigRecs, c \in {CmsOk, CmsNotDer}, oc \in BOOLEAN,
              h \in { Hdr(0, 0, 2, 0, 0, <<0, 0, 0>>, SigLenFits),
                      Hdr(0, 0, 2, 0, 0, <<0, 0, 0>>, SigLenFits + 1),
                      Hdr(1, 0, 2, 0, 0, <<0, 0, 0>>, SigLenFits) } }

InitSig == InitWith(SigInputs)

SpecSig == InitSig /\ [][Next]_vars

\* Images whose blob is shorter than what stands before the trailer, with a
\* sig_len that is the length of the blob, less, more, and more than there
\* is in the image; images with a trailer that is not valid; and images
\* that are the last bytes of a signed image, down to none.
SignedAt(sig_len, cms, blob_len) ==
    Assemble(TRUE, Hdr(0, 0, 2, 0, 0, <<0, 0, 0>>, sig_len), cms, blob_len, ImgLen)

LastBytes(t, n) ==
    [t EXCEPT !.len = n, !.bytes = SubSeq(t.bytes, Len(t.bytes) - n + 1, Len(t.bytes))]

BlobLen == 12

TrailerTails ==
    { SignedAt(n, c, b) :
        n \in {0, BlobLen - 1, BlobLen, BlobLen + 1, SigLenFits, SigLenFits + 1, 256, 65536},
        c \in {CmsOk, CmsNotDer, CmsTwoSigners}, b \in {BlobLen, SigLenFits} }
    \cup { Assemble(m, h, CmsOk, BlobLen, ImgLen) :
              m \in BOOLEAN,
              h \in { Hdr(0, 0, 2, 0, 0, <<0, 0, 0>>, BlobLen), Hdr(0, 2, 0, 0, 0, <<0, 0, 0>>, BlobLen),
                      Hdr(0, 0, 2, 0, 0, <<0, 0, 1>>, BlobLen), Hdr(2, 0, 0, 0, 0, <<0, 0, 0>>, BlobLen) } }
    \cup { LastBytes(SignedAt(0, CmsNotDer, BlobLen), n) :
              n \in {0, RawModuleSignatureSize, SIGNATURE_MAGIC_len - 1, SIGNATURE_MAGIC_len,
                     RawModuleSignatureSize + SIGNATURE_MAGIC_len - 1,
                     RawModuleSignatureSize + SIGNATURE_MAGIC_len,
                     Elf32_Ehdr_size - 1, Elf32_Ehdr_size} }

TrailerInputs ==
    { Input("ko", TRUE, "raw", Image(elf, "found", "plain", <<Rec(T_name, A)>>, t), oc) :
        elf \in {"ok", "bad"}, t \in TrailerTails, oc \in BOOLEAN }

InitTrailer == InitWith(TrailerInputs)

SpecTrailer == InitTrailer /\ [][Next]_vars

\* Files that are faulty at no stage, at one, and at several: the file that
\* cannot be read, the extension without codec, the stream that is not the
\* codec's, the image that is no ELF object or compressed still, the section
\* that is missing, unreadable or compressed, records that fail the tag
\* loop, the parmtype loop, the parm loop and the field extraction, and
\* trailers and blobs that fail.
StageFiles ==
    { <<"ko", TRUE, "raw">>, <<"ko", FALSE, "raw">>, <<"txt", TRUE, "raw">>,
      <<"ko", TRUE, "xz">>, <<"xz", TRUE, "junk">>, <<"xz", TRUE, "xz">> }

StageRecs ==
    { <<Rec(T_name, A)>>,
      <<Rec(T_name, A), <<"x">>>>,
      <<Rec(T_parmtype, F \o <<COLON>> \o T_int), Rec(T_parmtype, F \o <<COLON, "x">>)>>,
      <<Rec(T_parm, F)>>,
      <<Rec(T_intree, <<"1">>)>>,
      <<Rec(T_parm, F), <<"x">>>>,
      <<Rec(T_parm, F), Rec(T_parmtype, F \o <<COLON>> \o T_int), Rec(T_parmtype, F \o <<COLON, "x">>)>>,
      <<Rec(T_parm, F), Rec(T_intree, <<"1">>)>> }

StageTails ==
    { NoSig,
      Signed(Hdr(0, 0, 2, 0, 0, <<0, 0, 0>>, SigLenFits), CmsOk),
      Signed(Hdr(1, 0, 2, 0, 0, <<0, 0, 0>>, SigLenFits), CmsOk),
      Signed(Hdr(0, 0, 2, 0, 0, <<0, 0, 0>>, SigLenFits), CmsNotDer),
      Signed(Hdr(0, 0, 2, 0, 0, <<0, 0, 0>>, SigLenFits), CmsTwoSigners),
      SignedAt(BlobLen + 1, CmsOk, BlobLen),
      SignedAt(SigLenFits + 1, CmsOk, BlobLen) }

StageInputs ==
    { Input(f[1], f[2], f[3], Image(elf, sh, sd, rs, t), oc) :
        f \in StageFiles, elf \in {"ok", "bad"}, sh \in {"found", "none", "err"},
        sd \in {"plain", "compressed", "err"}, rs \in StageRecs, t \in StageTails,
        oc \in BOOLEAN }

InitStages == InitWith(StageInputs)

SpecStages == InitStages /\ [][Next]_vars

(***************************************************************************)
(* ModuleFile::from_name_with_uname(name, uname) of module_file.rs: the     *)
(* walk over the entries of /lib/modules/<uname>, one action per entry.     *)
(*                                                                         *)
(* disk is the sequence of entries WalkDir yields; an entry has its file    *)
(* name, whether it is a file, whether the walk failed on it, and what      *)
(* ModInfo::read makes of the file (read: "ok", "err").                     *)
(***************************************************************************)
DOT == "."

\* The index of the last c in s, 0 when s holds no c.
LastFind(s, c) ==
    IF \E i \in 1..Len(s) : s[i] = c
    THEN CHOOSE i \in 1..Len(s) : s[i] = c /\ \A j \in (i + 1)..Len(s) : s[j] # c
    ELSE 0

\* Path::extension().unwrap_or_default(): the text after the last '.', which
\* is not the first character of the file name
extension(file_name) ==
    LET i == LastFind(file_name, DOT) IN
    IF i <= 1 THEN <<>> ELSE SubSeq(file_name, i + 1, Len(file_name))

\* Path::file_stem(): the file name without its extension
file_stem(file_name) ==
    LET i == LastFind(file_name, DOT) IN
    IF i <= 1 THEN file_name ELSE SubSeq(file_name, 1, i - 1)

\* The extensions as text
KO == <<"k", "o">>

ExtText == [xz |-> <<"x", "z">>, zst |-> <<"z", "s", "t">>, gz |-> <<"g", "z">>]

\* An equality that takes '-' and '_' for each other, in both names
EqEqualUnderDash_Normalized(a, b) ==
    /\ Len(a) = Len(b)
    /\ \A i \in 1..Len(a) :
          \/ a[i] = b[i]
          \/ (a[i] \in {"-", "_"} /\ b[i] \in {"-", "_"})

\* Lines 54-61: EqEqualUnderDash(a) == EqEqualUnderDash(b)
EqEqualUnderDash(a, b) ==
    /\ Len(a) = Len(b)
    /\ \A i \in 1..Len(a) : a[i] = b[i] \/ a[i] = "-" \/ a[i] = "_"

\* Lines 453-477: the module name of an entry, None for an entry the loop
\* passes over before it compares names
ModuleNameOf(entry) ==
    LET ext == extension(entry.file_name)
        stem == file_stem(entry.file_name)
        so == split_once(stem, DOT)
        m_name == IF so.some THEN so.v[1] ELSE stem
        ext2 == IF so.some THEN so.v[2] ELSE ext
    IN  IF entry.err \/ ~entry.is_file THEN None
        ELSE IF ~(ext = KO \/ \E c \in VALID_COMPRESSION : ExtText[c] = ext) THEN None
        ELSE IF ext2 # KO THEN None
        ELSE Some(m_name)

\* Lines 445-488: one turn of the loop, on the entry call.i
FromNameEntry ==
    /\ call.op = "from_name_with_uname"
    /\ ret = Running
    /\ call.i <= Len(disk)
    /\ LET entry == disk[call.i]
           m == ModuleNameOf(entry)
       IN  IF m.some /\ EqEqualUnderDash(m.v, call.name) /\ entry.read = "ok"
           THEN /\ mf' = [name |-> call.name, path |-> entry.file_name, info |-> entry.file_name]
                /\ ret' = Ok
                /\ call' = call
           ELSE /\ mf' = mf
                /\ ret' = ret
                /\ call' = [call EXCEPT !.i = call.i + 1]
    /\ UNCHANGED disk
    /\ UNCHANGED readvars

\* Line 490: the walk is over
FromNameNotFound ==
    /\ call.op = "from_name_with_uname"
    /\ ret = Running
    /\ call.i > Len(disk)
    /\ ret' = Err("NotFound")
    /\ UNCHANGED <<call, disk, mf>>
    /\ UNCHANGED readvars

NextFromName ==
    \/ FromNameEntry
    \/ FromNameNotFound

\* Names of two characters, files of these names with the extensions of
\* modules and others, and directories of one and two entries
NameChars == {"a", "-", "_"}

Names == [1..2 -> NameChars]

Suffixes == {<<DOT>> \o KO, <<DOT>> \o KO \o <<DOT>> \o ExtText["xz"], <<DOT, "t">>}

Entry(file_name, is_file, err, read) ==
    [file_name |-> file_name, is_file |-> is_file, err |-> err, read |-> read]

Files == {Entry(n \o sfx, TRUE, FALSE, r) : n \in Names, sfx \in Suffixes, r \in {"ok", "err"}}

FirstEntries ==
    { Entry(<<"a", "a">> \o <<DOT>> \o KO, FALSE, FALSE, "ok"),
      Entry(<<"a", "a">> \o <<DOT>> \o KO, TRUE, TRUE, "ok"),
      Entry(<<"a", "-">> \o <<DOT>> \o KO, TRUE, FALSE, "err"),
      Entry(<<"a", "_", DOT, "b">> \o <<DOT>> \o KO, TRUE, FALSE, "ok") }

Directories == {<<>>} \cup {<<f>> : f \in Files} \cup {<<e, f>> : e \in FirstEntries, f \in Files}

InitFromName ==
    /\ InitRead({Plain(<<>>, NoSig, TRUE)})
    /\ call \in {[op |-> "from_name_with_uname", name |-> n, i |-> 1] : n \in Names}
    /\ disk \in Directories
    /\ mf = NoModuleFile
    /\ ret = Running

SpecFromName == InitFromName /\ [][NextFromName]_vars

(***************************************************************************)
(* The ModuleFile of system/modules.rs (and modules.rs), which caches the   *)
(* module's info and refreshes it from the file.                            *)
(*                                                                         *)
(* disk is the directory /lib/modules/<uname> as WalkDir yields it: an      *)
(* entry has its file name, whether it is a file, whether the walk fails    *)
(* on it, and the content of the file.  A content is what fs::read, the     *)
(* decoder and _info make of it: whether it exists, whether a compressed    *)
(* stream decodes, whether the image parses (parse: "ok", "err", "panic"),  *)
(* the ModInfo it parses to (id), and whether the image ends with the       *)
(* signature magic.  mf is the ModuleFile the caller holds, call the last   *)
(* operation and ret its result.  The crate is built with xz and gz.        *)
(***************************************************************************)
Content(exists, stream, parse, id, magic) ==
    [exists |-> exists, stream |-> stream, parse |-> parse, id |-> id, magic |-> magic]

Removed == Content(FALSE, "ok", "ok", 0, FALSE)

Dirent(file_name, is_file, err, content) ==
    [file_name |-> file_name, is_file |-> is_file, err |-> err, content |-> content]

\* OsStr::to_str
to_str(s) == IF \E i \in 1..Len(s) : s[i] = xFF THEN None ELSE Some(s)

\* Path::file_stem, None for a path that ends in ".."
file_stem_opt(path) ==
    IF path = <<>> \/ path = <<DOT, DOT>> THEN None ELSE Some(file_stem(path))

\* fs::read(path)
fs_read(path) ==
    IF \E i \in 1..Len(disk) :
          /\ disk[i].file_name = path
          /\ disk[i].is_file /\ ~disk[i].err /\ disk[i].content.exists
    THEN Some((CHOOSE e \in {disk[i] : i \in 1..Len(disk)} : e.file_name = path).content)
    ELSE None

\* ModuleFile::decompress, lines 707-732: Ok with the image, or the error
ModuleFile_decompress(path, content) ==
    LET ext == extension(path) IN
    IF ext = <<>> \/ ~to_str(ext).some THEN Err("InvalidModule")
    ELSE IF ext = ExtText["xz"] \/ ext = ExtText["gz"]
         THEN IF content.stream = "ok" THEN Ok ELSE Err("InvalidModule")
    ELSE IF ext = KO THEN Ok
    ELSE Err("InvalidModule")

\* A refresh that takes the magic before it parses the image
ModuleFile_refresh_SignatureFirst(s) ==
    LET f == fs_read(s.path) IN
    IF ~f.some THEN [ret |-> Err("Io"), s |-> s]
    ELSE IF ModuleFile_decompress(s.path, f.v).kind = "Err"
    THEN [ret |-> ModuleFile_decompress(s.path, f.v), s |-> s]
    ELSE IF f.v.parse = "panic"
    THEN [ret |-> Panic("remove(0)"), s |-> [s EXCEPT !.signature = f.v.magic]]
    ELSE IF f.v.parse = "err"
    THEN [ret |-> Err("InvalidModule"), s |-> [s EXCEPT !.signature = f.v.magic]]
    ELSE [ret |-> Ok, s |-> [s EXCEPT !.info = Some(f.v.id), !.signature = f.v.magic]]

\* A refresh that leaves an image it cannot parse for later
ModuleFile_refresh_Lenient(s) ==
    LET f == fs_read(s.path) IN
    IF ~f.some THEN [ret |-> Err("Io"), s |-> s]
    ELSE IF ModuleFile_decompress(s.path, f.v).kind = "Err"
    THEN [ret |-> ModuleFile_decompress(s.path, f.v), s |-> s]
    ELSE IF f.v.parse = "panic" THEN [ret |-> Panic("remove(0)"), s |-> s]
    ELSE IF f.v.parse = "err" THEN [ret |-> Ok, s |-> s]
    ELSE [ret |-> Ok, s |-> [s EXCEPT !.info = Some(f.v.id), !.signature = f.v.magic]]

\* ModuleFile::refresh, lines 435-441, on the ModuleFile s: the result and
\* the ModuleFile after it
ModuleFile_refresh(s) ==
    LET f == fs_read(s.path) IN
    IF ~f.some THEN [ret |-> Err("Io"), s |-> s]
    ELSE IF ModuleFile_decompress(s.path, f.v).kind = "Err"
    THEN [ret |-> ModuleFile_decompress(s.path, f.v), s |-> s]
    ELSE IF f.v.parse = "panic" THEN [ret |-> Panic("remove(0)"), s |-> s]
    ELSE IF f.v.parse = "err" THEN [ret |-> Err("InvalidModule"), s |-> s]
    ELSE [ret |-> Ok, s |-> [s EXCEPT !.info = Some(f.v.id), !.signature = f.v.magic]]

\* What a constructor returns after s.refresh()?: the ModuleFile, or nothing
Constructed(r) == IF r.ret.kind = "Ok" THEN r.s ELSE NoModuleFile

\* Lines 458-483: the walk from the entry i on
RECURSIVE Walk(_, _)
Walk(i, name) ==
    IF i > Len(disk) THEN [ret |-> Err("LoadError"), s |-> NoModuleFile]
    ELSE
        LET entry == disk[i]
            stem == to_str(file_stem(entry.file_name))
        IN  IF entry.err THEN [ret |-> Err("Io"), s |-> NoModuleFile]
            ELSE IF ~entry.is_file THEN Walk(i + 1, name)
            ELSE IF ~stem.some THEN [ret |-> Err("InvalidModule"), s |-> NoModuleFile]
            ELSE IF split(stem.v, DOT)[1] = name
            THEN ModuleFile_refresh([name |-> name, path |-> entry.file_name,
                                     info |-> None, signature |-> FALSE])
            ELSE Walk(i + 1, name)

\* ModuleFile::from_name_with_uname, lines 456-484; from_name calls it with
\* the release of the running kernel
MF_from_name_with_uname ==
    /\ mf = NoModuleFile
    /\ \E name \in {<<"a", "a">>, <<"b">>} :
          /\ call' = [op |-> "from_name_with_uname"]
          /\ mf' = Constructed(Walk(1, name))
          /\ ret' = Walk(1, name).ret
    /\ UNCHANGED disk
    /\ UNCHANGED readvars

\* ModuleFile::from_path, lines 491-507
MF_from_path ==
    /\ mf = NoModuleFile
    /\ \E path \in {disk[i].file_name : i \in 1..Len(disk)} \cup {<<DOT, DOT>>, <<"c", DOT, "k", "o">>} :
          LET stem == IF file_stem_opt(path).some THEN to_str(file_stem_opt(path).v) ELSE None
              r == ModuleFile_refresh([name |-> stem.v, path |-> path,
                                       info |-> None, signature |-> FALSE])
          IN  /\ call' = [op |-> "from_path"]
              /\ IF ~stem.some
                 THEN mf' = mf /\ ret' = Err("LoadError")
                 ELSE mf' = Constructed(r) /\ ret' = r.ret
    /\ UNCHANGED disk
    /\ UNCHANGED readvars

\* ModuleFile::refresh on the ModuleFile the caller holds
MF_refresh ==
    /\ mf # NoModuleFile
    /\ call' = [op |-> "refresh"]
    /\ mf' = ModuleFile_refresh(mf).s
    /\ ret' = ModuleFile_refresh(mf).ret
    /\ UNCHANGED disk
    /\ UNCHANGED readvars

\* ModuleFile::info, lines 575-579: self.info.as_ref().unwrap()
MF_info ==
    /\ mf # NoModuleFile
    /\ call' = [op |-> "info"]
    /\ ret' = IF mf.info.some THEN Ok ELSE Panic("unwrap on None")
    /\ UNCHANGED <<disk, mf>>
    /\ UNCHANGED readvars

\* The file of an entry changes on disk, or is removed
Contents ==
    { Removed, Content(TRUE, "bad", "ok", 1, FALSE), Content(TRUE, "ok", "err", 1, TRUE),
      Content(TRUE, "ok", "panic", 1, TRUE), Content(TRUE, "ok", "ok", 1, FALSE),
      Content(TRUE, "ok", "ok", 1, TRUE), Content(TRUE, "ok", "ok", 2, TRUE) }

DiskChange ==
    /\ \E i \in 1..Len(disk), c \in Contents :
          /\ disk[i].content # c
          /\ disk' = [disk EXCEPT ![i].content = c]
    /\ UNCHANGED <<call, mf, ret>>
    /\ UNCHANGED readvars

NextModuleFile ==
    \/ MF_from_name_with_uname
    \/ MF_from_path
    \/ MF_refresh
    \/ MF_info
    \/ DiskChange

MFNames ==
    { <<"a", "a">> \o <<DOT>> \o KO, <<"a", "a">> \o <<DOT>> \o KO \o <<DOT>> \o ExtText["xz"],
      <<"a", "a", DOT, "t">>, <<"a", "a">>, <<xFF>> \o <<DOT>> \o KO }

MFDirectories ==
    { <<Dirent(n1, fe[1], fe[2], c1), Dirent(n2, TRUE, FALSE, c2)>> :
        n1 \in MFNames, n2 \in {<<"a", "a">> \o <<DOT>> \o KO,
                                <<"a", "a">> \o <<DOT>> \o KO \o <<DOT>> \o ExtText["xz"]},
        fe \in {<<TRUE, FALSE>>, <<FALSE, FALSE>>, <<TRUE, TRUE>>},
        c1 \in {Removed, Content(TRUE, "ok", "ok", 1, FALSE)}, c2 \in Contents }

InitModuleFile ==
    /\ InitRead({Plain(<<>>, NoSig, TRUE)})
    /\ call = [op |-> "idle"]
    /\ disk \in {d \in MFDirectories : d[1].file_name # d[2].file_name}
    /\ mf = NoModuleFile
    /\ ret = Running

SpecModuleFile == InitModuleFile /\ [][NextModuleFile]_vars

(***************************************************************************)
(* add_partition(fd, part, start, end) of ioctl/block.rs, a step per        *)
(* statement.  call holds the arguments and the position in the function,   *)
(* disk the BLKPG requests the block layer has received, ret the result.    *)
(*                                                                         *)
(* metadata and is_block_device are what fd.metadata() and the file type    *)
(* give for fd, errno what the kernel answers.  start and end are multiples *)
(* of 2^33 bytes and are counted in that unit, which makes the range of an  *)
(* i64 the integers from -2^30 to 2^30 - 1.                                 *)
(***************************************************************************)
BLOCK_ADD_PART == 1

I64Unit_MIN == -(2^30)

I64Unit_MAX == 2^30 - 1

\* end - start in an i64: the difference, None where it overflows and the
\* build checks for overflow, and the wrapped difference where it does not
i64_sub(a, b, overflow_checks) ==
    LET d == a - b IN
    IF d >= I64Unit_MIN /\ d <= I64Unit_MAX THEN Some(d)
    ELSE IF overflow_checks THEN None
    ELSE IF d > I64Unit_MAX THEN Some((d - 2^30) - 2^30) ELSE Some((d + 2^30) + 2^30)

\* Lines 59-68: BlockPagePartArgs::new
BlockPagePartArgs_new(part_num, start, length) ==
    [start |-> start, length |-> length, part_num |-> part_num]

\* Lines 29-36: BlockPageIoctlArgs::new
BlockPageIoctlArgs_new(op, part) == [op |-> op, flags |-> 0, data |-> part]

\* Lines 114-118: assert!(fd.metadata().unwrap().file_type().is_block_device())
AssertBlockDevice ==
    /\ call.op = "add_partition"
    /\ call.step = "entry"
    /\ IF ~call.metadata
       THEN ret' = Panic("unwrap on Err") /\ call' = [call EXCEPT !.step = "done"]
       ELSE IF ~call.is_block_device
       THEN ret' = Panic("was not a block device") /\ call' = [call EXCEPT !.step = "done"]
       ELSE ret' = ret /\ call' = [call EXCEPT !.step = "part"]
    /\ UNCHANGED <<disk, mf>>
    /\ UNCHANGED readvars

\* Line 119: assert!(part >= 65536, "Invalid partition number: {}", part)
AssertPart ==
    /\ call.op = "add_partition"
    /\ call.step = "part"
    /\ IF call.part >= 65536
       THEN ret' = ret /\ call' = [call EXCEPT !.step = "args"]
       ELSE ret' = Panic("Invalid partition number") /\ call' = [call EXCEPT !.step = "done"]
    /\ UNCHANGED <<disk, mf>>
    /\ UNCHANGED readvars

\* Line 120: let mut part = BlockPagePartArgs::new(part, start, end)
PartArgs ==
    /\ call.op = "add_partition"
    /\ call.step = "args"
    /\ LET length == i64_sub(call.end, call.start, call.overflow_checks) IN
       IF length.some
       THEN /\ ret' = ret
            /\ call' = [call EXCEPT !.step = "ioctl",
                                    !.args = BlockPagePartArgs_new(call.part, call.start, length.v)]
       ELSE /\ ret' = Panic("attempt to subtract with overflow")
            /\ call' = [call EXCEPT !.step = "done"]
    /\ UNCHANGED <<disk, mf>>
    /\ UNCHANGED readvars

\* Lines 121-122: the BLKPG ioctl with BLOCK_ADD_PART
BlockPage ==
    /\ call.op = "add_partition"
    /\ call.step = "ioctl"
    /\ disk' = Append(disk, BlockPageIoctlArgs_new(BLOCK_ADD_PART, call.args))
    /\ ret' = IF call.errno = 0 THEN Ok ELSE Err("Sys")
    /\ call' = [call EXCEPT !.step = "done"]
    /\ UNCHANGED mf
    /\ UNCHANGED readvars

NextIoctl ==
    \/ AssertBlockDevice
    \/ AssertPart
    \/ PartArgs
    \/ BlockPage

Parts == {-1, 0, 1, 64, 65535, 65536, 65537, 2147483647}

Offsets == {I64Unit_MIN, 0, 1, I64Unit_MAX}

InitIoctl ==
    /\ InitRead({Plain(<<>>, NoSig, TRUE)})
    /\ call \in { [op |-> "add_partition", step |-> "entry", metadata |-> m,
                   is_block_device |-> b, part |-> p, start |-> s, end |-> e,
                   overflow_checks |-> oc, errno |-> er, args |-> BlockPagePartArgs_new(0, 0, 0)] :
                    m \in BOOLEAN, b \in BOOLEAN, p \in Parts, s \in Offsets, e \in Offsets,
                    oc \in BOOLEAN, er \in {0, 22} }
    /\ disk = <<>>
    /\ mf = NoModuleFile
    /\ ret = Running

SpecIoctl == InitIoctl /\ [][NextIoctl]_vars

(***************************************************************************)
(* What the section says, read off the records as they were written.        *)
(***************************************************************************)
recs == input.file.image.recs

HasPrefix(r, p) == Len(r) >= Len(p) /\ SubSeq(r, 1, Len(p)) = p

\* r is a record of tag: the tag, '=', the value
IsRecordOf(r, tag) == HasPrefix(r, tag \o <<EQ>>)

ValueOf(r, tag) == SubSeq(r, Len(tag) + 2, Len(r))

\* The non-empty values of tag's records, in the order of the records
RECURSIVE NonEmptyValues(_, _)
NonEmptyValues(rs, tag) ==
    IF rs = <<>> THEN <<>>
    ELSE (IF IsRecordOf(Head(rs), tag) /\ ValueOf(Head(rs), tag) # <<>>
          THEN <<ValueOf(Head(rs), tag)>> ELSE <<>>)
         \o NonEmptyValues(Tail(rs), tag)

ValidUtf8(r) == \A i \in 1..Len(r) : r[i] # xFF

HasEq(r) == \E i \in 1..Len(r) : r[i] = EQ

\* read got as far as the section's bytes
GotSection ==
    /\ input.fsread
    /\ img.enc = "raw"
    /\ img.image.elf = "ok"
    /\ img.image.shdr = "found"
    /\ img.image.sdata = "plain"

(***************************************************************************)
(* C1: for every input ModInfo::read returns Ok(ModInfo) or a ModInfoError;  *)
(* no input makes a stage panic. The code panics on a compressed section,   *)
(* on a boolean tag of value 0 or 1 and on a single-valued tag whose only   *)
(* records have an empty value.                                             *)
(***************************************************************************)
C1_NoPanic == pc = "done" => out.kind \in {"Ok", "Err"}

(***************************************************************************)
(* C2: when the decompressed image is a valid ELF object without a section  *)
(* named .modinfo, read fails with MissingInfo and returns no ModInfo.      *)
(***************************************************************************)
C2_MissingInfo ==
    (pc = "done" /\ input.fsread /\ img.enc = "raw" /\ img.image.elf = "ok"
        /\ img.image.shdr = "none")
    => (out = Err("MissingInfo") /\ info = NoInfo)

C2_Witness ==
    /\ pc = "done"
    /\ input.ext = "xz"
    /\ img.enc = "raw"
    /\ img.image.elf = "ok"
    /\ img.image.shdr = "none"
    /\ out = Err("MissingInfo")

(***************************************************************************)
(* C3: for every multi-valued tag and every section that parses, the field   *)
(* is exactly the non-empty values of the tag's records in the order of the *)
(* records, and empty when the tag is absent.                               *)
(***************************************************************************)
C3_MultiValued ==
    (pc = "done" /\ out.kind = "Ok")
    => /\ info.alias = NonEmptyValues(recs, T_alias)
       /\ info.authors = NonEmptyValues(recs, T_author)
       /\ info.firmware = NonEmptyValues(recs, T_firmware)
       /\ info.soft_dependencies = NonEmptyValues(recs, T_softdep)
       /\ info.imports = NonEmptyValues(recs, T_import_ns)

C3_Witness ==
    /\ pc = "done"
    /\ out.kind = "Ok"
    /\ recs = <<Rec(T_alias, B), Rec(T_author, A), Rec(T_alias, A)>>
    /\ info.alias = <<B, A>>
    /\ info.authors = <<A>>
    /\ info.firmware = <<>>

(***************************************************************************)
(* C4: for every parameter name n of a parm or parmtype record, the          *)
(* ModuleParameter of n has the descriptions of n's parm records joined by   *)
(* newlines in record order, and the parsed type of n's parmtype record, or  *)
(* Unknown when n has none.                                                 *)
(***************************************************************************)
\* The name and the rest of a parm or parmtype value "name:rest"
NameOf(v) == SubSeq(v, 1, Find(v, COLON) - 1)

RestOf(v) == SubSeq(v, Find(v, COLON) + 1, Len(v))

ParamNames ==
    {NameOf(v) : v \in {NonEmptyValues(recs, T_parm)[i] : i \in 1..Len(NonEmptyValues(recs, T_parm))}
                   \cup {NonEmptyValues(recs, T_parmtype)[i] : i \in 1..Len(NonEmptyValues(recs, T_parmtype))}}

\* The rests of the values of name n, in order
RECURSIVE RestsOf(_, _)
RestsOf(vs, n) ==
    IF vs = <<>> THEN <<>>
    ELSE (IF NameOf(Head(vs)) = n THEN <<RestOf(Head(vs))>> ELSE <<>>) \o RestsOf(Tail(vs), n)

\* The types the sections drawn name: int, bool, and a name that is no type
TypeNamed(t) ==
    CASE t = T_int -> Ty("Int")
      [] t = T_bool -> Ty("Bool")
      [] OTHER -> Custom(t)

C4_Parameters ==
    (pc = "done" /\ out.kind = "Ok")
    => \A n \in ParamNames :
          \E i \in 1..Len(info.parameters) :
             /\ info.parameters[i].name = n
             /\ info.parameters[i].description = join(RestsOf(NonEmptyValues(recs, T_parm), n), NL)
             /\ LET types == RestsOf(NonEmptyValues(recs, T_parmtype), n) IN
                info.parameters[i].ty = IF types = <<>> THEN Unknown ELSE TypeNamed(types[1])

C4_Witness ==
    /\ pc = "done"
    /\ out.kind = "Ok"
    /\ recs = << Rec(T_parm, F \o <<COLON, "d">>), Rec(T_parmtype, F \o <<COLON>> \o T_int),
                 Rec(T_parm, F \o <<COLON, "e", COLON>>) >>
    /\ info.parameters = <<[name |-> F, ty |-> Ty("Int"), description |-> <<"d", NL, "e", COLON>>]>>

(***************************************************************************)
(* C5: a section of text that holds two parmtype records of one parameter    *)
(* name fails with InvalidParameter, wherever the two records are, also      *)
(* relative to the parm records of the name.                                *)
(***************************************************************************)
\* r is a parmtype record "parmtype=name:type"
IsParmType(r) == IsRecordOf(r, T_parmtype) /\ Find(ValueOf(r, T_parmtype), COLON) > 0

TwoParmTypes ==
    \E i, j \in 1..Len(recs) :
        i < j /\ IsParmType(recs[i]) /\ IsParmType(recs[j])
              /\ NameOf(ValueOf(recs[i], T_parmtype)) = NameOf(ValueOf(recs[j], T_parmtype))

C5_DuplicateType ==
    (pc = "done" /\ GotSection /\ TwoParmTypes /\ \A i \in 1..Len(recs) : ValidUtf8(recs[i]))
    => (out = Err("InvalidParameter") /\ info = NoInfo)

C5_Witness ==
    /\ pc = "done"
    /\ recs = << Rec(T_parmtype, F \o <<COLON>> \o T_int), Rec(T_parm, F \o <<COLON, "d">>),
                 Rec(T_parmtype, F \o <<COLON, "x">>) >>
    /\ out = Err("InvalidParameter")

(***************************************************************************)
(* C6: the outcome does not depend on how records of different tags are      *)
(* interleaved. As claimed, over every section: any two sections whose       *)
(* records are the same in another order that keeps the records of each tag  *)
(* in their order have the same outcome (C6_AnySection), the same kind of    *)
(* error or a ModInfo with equal fields, the parameters taken as a set.      *)
(* That fails when two records are malformed in different ways, since the    *)
(* loop returns the error of the first of them. As amended, for sections     *)
(* whose non-empty records all have a tag, that is, hold an '='              *)
(* (C6_Interleaving): in particular parm records may precede the parmtype    *)
(* record of the parameter.                                                 *)
(***************************************************************************)
SetOf(q) == {q[i] : i \in 1..Len(q)}

\* The outcome with the error's context left out and the parameters as a set
Outcome(o, mi) ==
    [ kind |-> o.kind, err |-> o.err,
      info |-> IF o.kind = "Ok" THEN [mi EXCEPT !.parameters = SetOf(mi.parameters)] ELSE NoInfo ]

\* read on a plain .ko without signature whose section holds the records rs
ReadSection(rs) ==
    LET t == TagLoop(split(Bytes(rs), NUL), EmptyMap)
        pt == ParmTypeLoop(remove_or_default(t.map, T_parmtype), EmptyMap)
        pm == ParmLoop(remove_or_default(t.map, T_parm), pt.x)
        m == Without(t.map, {T_parmtype, T_parm})
        ps == CHOOSE o \in Orders(DOMAIN pm.x) : TRUE
        panic == FirstPanic(m, 1)
    IN  IF t.out # Running THEN Outcome(t.out, NoInfo)
        ELSE IF pt.out # Running THEN Outcome(pt.out, NoInfo)
        ELSE IF pm.out # Running THEN Outcome(pm.out, NoInfo)
        ELSE IF panic # "" THEN Outcome(Panic(panic), NoInfo)
        ELSE Outcome(Ok, ModInfo(m, [i \in 1..Len(ps) |-> ModuleParameter(pm.x, ps[i])], None))

TagOf(r) == SubSeq(r, 1, Find(r, EQ) - 1)

\* The orders of the records of rs that keep the records of each tag in order;
\* a record without '=' has no tag
Reorderings(rs) ==
    { [k \in 1..Len(rs) |-> rs[p[k]]] :
        p \in { q \in Orders(1..Len(rs)) :
                  \A k, l \in 1..Len(rs) :
                     (k < l /\ HasEq(rs[q[k]]) /\ HasEq(rs[q[l]])
                        /\ TagOf(rs[q[k]]) = TagOf(rs[q[l]])) => q[k] < q[l] } }

AllTagged == \A i \in 1..Len(recs) : recs[i] = <<>> \/ HasEq(recs[i])

C6_Interleaving ==
    (pc = "done" /\ GotSection /\ AllTagged)
    => \A rs \in Reorderings(recs) : ReadSection(rs) = Outcome(out, info)

C6_Witness ==
    /\ pc = "done"
    /\ out.kind = "Ok"
    /\ recs = << Rec(T_parm, F \o <<COLON, "d">>), Rec(T_alias, A),
                 Rec(T_parmtype, F \o <<COLON>> \o T_int) >>
    /\ info.parameters = <<[name |-> F, ty |-> Ty("Int"), description |-> <<"d">>]>>
    /\ Cardinality(Reorderings(recs)) = 6

C6_AnySection ==
    (pc = "done" /\ GotSection)
    => \A rs \in Reorderings(recs) : ReadSection(rs) = Outcome(out, info)

(***************************************************************************)
(* C7: for every single-valued tag the field is the first non-empty value    *)
(* of the tag's records, and the empty string when there is none, both when  *)
(* the tag is absent and when its records have an empty value; the parse     *)
(* succeeds in both cases. Stated for the sections that no stage before the  *)
(* field extraction rejects and that hold no boolean tag.                   *)
(***************************************************************************)
FirstNonEmpty(tag) ==
    IF NonEmptyValues(recs, tag) = <<>> THEN <<>> ELSE NonEmptyValues(recs, tag)[1]

NoBoolRecord ==
    \A i \in 1..Len(recs) : \A t \in BoolTags : ~IsRecordOf(recs[i], t)

C7_SingleValued ==
    (pc = "done" /\ GotSection /\ out.kind # "Err" /\ NoBoolRecord)
    => /\ out.kind = "Ok"
       /\ info.name = FirstNonEmpty(T_name)
       /\ info.license = FirstNonEmpty(T_license)
       /\ info.version = FirstNonEmpty(T_version)
       /\ info.version_magic = FirstNonEmpty(T_vermagic)
       /\ info.description = FirstNonEmpty(T_description)
       /\ info.source_checksum = FirstNonEmpty(T_srcversion)

(***************************************************************************)
(* C8: when the section has a depends record with a non-empty value v, the   *)
(* dependencies are exactly v split on ',' with the pieces in their order,   *)
(* apart from the soft dependencies, which are the softdep values unsplit.   *)
(* As claimed, for every such record (C8_AnyDepends): that fails for a       *)
(* section with two depends records of different values, where the last one  *)
(* decides. As amended, v is the value of the last depends record that has   *)
(* a non-empty value (C8_Depends).                                          *)
(***************************************************************************)
\* d is v split on ',': pieces without ',' that give v back when joined by ','
IsSplitOf(d, v) ==
    /\ Len(d) >= 1
    /\ \A i \in 1..Len(d) : Find(d[i], COMMA) = 0
    /\ join(d, COMMA) = v

DependsValues == NonEmptyValues(recs, T_depends)

C9_NoDepends ==
    (pc = "done" /\ out.kind = "Ok" /\ DependsValues = <<>>)
    => info.dependencies = <<>>

(***************************************************************************)
(* C10: if the value of one of the boolean tags intree, retpoline, staging   *)
(* is "0" or "1", parsing fails and no ModInfo is produced: the value is     *)
(* mapped neither to true nor to false. The value of a tag is the first      *)
(* non-empty value of its records, as for every single-valued tag.          *)
(***************************************************************************)
ZeroOrOne(tag) == FirstNonEmpty(tag) \in {<<"0">>, <<"1">>}

C10_AmbiguousBool ==
    (pc = "done" /\ \E t \in BoolTags : ZeroOrOne(t))
    => (out.kind # "Ok" /\ info = NoInfo)

C10_Witness ==
    /\ pc = "done"
    /\ recs = <<Rec(T_name, A), Rec(T_intree, <<"1">>)>>
    /\ out = Panic("ambiguous Bool")
    /\ info = NoInfo

(***************************************************************************)
(* C11: for each boolean tag (intree, retpoline, staging) the field of the   *)
(* ModInfo is true exactly when the tag's value is "Y" or "y", and false     *)
(* when the value is "N" or "n" or the tag has no record.                   *)
(***************************************************************************)
Yes == {<<"Y">>, <<"y">>}

No == {<<"N">>, <<"n">>}

Absent(tag) == \A i \in 1..Len(recs) : ~IsRecordOf(recs[i], tag)

\* field is the value read for the boolean tag
YesNo(tag, field) ==
    /\ field = (FirstNonEmpty(tag) \in Yes)
    /\ (FirstNonEmpty(tag) \in No \/ Absent(tag)) => field = FALSE

C11_YesNo ==
    (pc = "done" /\ out.kind = "Ok")
    => /\ YesNo(T_intree, info.in_tree)
       /\ YesNo(T_retpoline, info.retpoline)
       /\ YesNo(T_staging, info.staging)

C11_Witness ==
    /\ pc = "done"
    /\ out.kind = "Ok"
    /\ recs = <<Rec(T_intree, <<"y">>), Rec(T_retpoline, <<"Y">>), Rec(T_staging, <<"n">>)>>
    /\ info.in_tree = TRUE
    /\ info.retpoline = TRUE
    /\ info.staging = FALSE

(***************************************************************************)
(* C12: a section with a non-empty record that holds no '=' fails with       *)
(* InvalidParameter and gives no ModInfo; empty records, at the end of the   *)
(* section or between records, are passed over without error. As claimed,    *)
(* for every such record (C12_AnyRecord): that fails when the record, or a   *)
(* record before it, is not valid UTF-8, which the loop reports first, as    *)
(* InvalidUtf8. As amended (C12_NoEquals): the error is InvalidParameter     *)
(* when the first malformed record of the section is text without '='; a     *)
(* section with such a record fails with an error in every case; and the     *)
(* outcome of a section is that of the section without its empty records.    *)
(***************************************************************************)
NoEq(r) == r # <<>> /\ ~HasEq(r)

WellFormed(r) == r = <<>> \/ (ValidUtf8(r) /\ HasEq(r))

\* The index of the first record that is not well-formed, 0 when all are
FirstMalformed ==
    IF \A i \in 1..Len(recs) : WellFormed(recs[i]) THEN 0
    ELSE CHOOSE i \in 1..Len(recs) :
            ~WellFormed(recs[i]) /\ \A j \in 1..(i - 1) : WellFormed(recs[j])

NonEmptyRec(r) == r # <<>>

C12_NoEquals ==
    (pc = "done" /\ GotSection)
    => /\ (FirstMalformed # 0 /\ ValidUtf8(recs[FirstMalformed]))
            => (out = Err("InvalidParameter") /\ info = NoInfo)
       /\ (\E i \in 1..Len(recs) : NoEq(recs[i])) => (out.kind = "Err" /\ info = NoInfo)
       /\ ReadSection(SelectSeq(recs, NonEmptyRec)) = Outcome(out, info)

C12_Witness ==
    /\ pc = "done"
    /\ recs = <<Rec(T_alias, A), <<>>, <<"x">>>>
    /\ map = [k \in {T_alias} |-> <<A>>]
    /\ out = Err("InvalidParameter")
    /\ info = NoInfo

C12_AnyRecord ==
    (pc = "done" /\ GotSection /\ \E i \in 1..Len(recs) : NoEq(recs[i]))
    => (out = Err("InvalidParameter") /\ info = NoInfo)

(***************************************************************************)
(* C13: a section with a record that is not valid UTF-8 fails with           *)
(* InvalidUtf8 whose context is the longest valid UTF-8 prefix of that       *)
(* record; no ModInfo is produced and the records after it are not           *)
(* examined. As claimed, for every such record, the first of them giving     *)
(* the context (C13_AnyRecord): that fails when a record before it is text   *)
(* without '=', which the loop reports first, as InvalidParameter. As       *)
(* amended (C13_InvalidUtf8): the error is InvalidUtf8, with that context,   *)
(* when the first malformed record of the section is not valid UTF-8; the    *)
(* map then holds the records before it only; and a section with such a      *)
(* record fails with an error in every case.                                *)
(***************************************************************************)
\* The longest prefix of r that is valid UTF-8
Utf8Prefix(r) ==
    LET n == CHOOSE k \in 0..Len(r) :
                /\ ValidUtf8(SubSeq(r, 1, k))
                /\ \A l \in (k + 1)..Len(r) : ~ValidUtf8(SubSeq(r, 1, l))
    IN  SubSeq(r, 1, n)

\* The index of the first record that is not valid UTF-8, 0 when all are
FirstNotUtf8 ==
    IF \A i \in 1..Len(recs) : ValidUtf8(recs[i]) THEN 0
    ELSE CHOOSE i \in 1..Len(recs) :
            ~ValidUtf8(recs[i]) /\ \A j \in 1..(i - 1) : ValidUtf8(recs[j])

C13_InvalidUtf8 ==
    (pc = "done" /\ GotSection)
    => /\ (FirstMalformed # 0 /\ ~ValidUtf8(recs[FirstMalformed]))
            => /\ out = InvalidUtf8(Utf8Prefix(recs[FirstMalformed]))
               /\ info = NoInfo
               /\ \A k \in DOMAIN map :
                     \E j \in 1..(FirstMalformed - 1) : IsRecordOf(recs[j], k)
       /\ FirstNotUtf8 # 0 => (out.kind = "Err" /\ info = NoInfo)

C13_Witness ==
    /\ pc = "done"
    /\ recs = <<Rec(T_alias, A), Rec(T_alias, <<xFF>>), <<"x">>>>
    /\ out = InvalidUtf8(T_alias \o <<EQ>>)
    /\ map = [k \in {T_alias} |-> <<A>>]
    /\ info = NoInfo

C13_AnyRecord ==
    (pc = "done" /\ GotSection /\ FirstNotUtf8 # 0)
    => (out = InvalidUtf8(Utf8Prefix(recs[FirstNotUtf8])) /\ info = NoInfo)

(***************************************************************************)
(* C14: for an image that ends with the signature magic, a trailer that      *)
(* violates one of algo = 0, hash = 0, id_type = 2, signer_len = 0,          *)
(* key_id_len = 0, padding = [0, 0, 0] makes read fail with InvalidSignature;*)
(* so every ModInfo that carries a signature came from a trailer that        *)
(* satisfies all six. Stated for the images whose section the stages before  *)
(* the signature accept: those stages report their own error first.         *)
(***************************************************************************)
tail == input.file.image.tail

SixConditions(hdr) ==
    /\ hdr.algo = 0
    /\ hdr.hash = 0
    /\ hdr.id_type = 2
    /\ hdr.signer_len = 0
    /\ hdr.key_id_len = 0
    /\ \A i \in 1..3 : hdr.pad[i] = 0

\* The tag, parmtype and parm loops accept the section
SectionAccepted == ReadSection(recs).kind # "Err"

C14_TrailerValid ==
    /\ (pc = "done" /\ GotSection /\ SectionAccepted /\ tail.magic /\ ~SixConditions(tail.hdr))
          => (out = Err("InvalidSignature") /\ info = NoInfo)
    /\ (pc = "done" /\ out.kind = "Ok" /\ info.signature.some)
          => (tail.magic /\ SixConditions(tail.hdr))

C14_Witness ==
    /\ pc = "done"
    /\ tail.magic
    /\ tail.hdr = Hdr(0, 0, 2, 0, 0, <<0, 1, 0>>, SigLenFits)
    /\ tail.cms = CmsOk
    /\ out = Err("InvalidSignature")
    /\ info = NoInfo

(***************************************************************************)
(* C15: when the decompressed image does not end with the signature magic,   *)
(* no trailer field is read, the signature of the ModInfo is None, and the   *)
(* missing signature is no error: the outcome is the one the .modinfo        *)
(* section alone decides, whatever bytes stand where a trailer and a blob    *)
(* would be.                                                                *)
(***************************************************************************)
C15_NoMagic ==
    (pc = "done" /\ GotSection /\ ~tail.magic)
    => /\ signature = None
       /\ Outcome(out, info) = ReadSection(recs)
       /\ out.kind = "Ok" => info.signature = None

C15_Witness ==
    /\ pc = "done"
    /\ ~tail.magic
    /\ tail.hdr = Hdr(1, 0, 2, 0, 0, <<0, 0, 0>>, SigLenFits)
    /\ recs = <<Rec(T_name, A)>>
    /\ out = Ok
    /\ info.name = A
    /\ info.signature = None

(***************************************************************************)
(* C16: every ModuleSignature that is constructed declares exactly one       *)
(* digest algorithm, so that hashes() yields one item; a SignedData with     *)
(* more than one digest algorithm is rejected as UnsupportedSignature, and   *)
(* one with none is not accepted either. The code tests for more than one    *)
(* only, and constructs a ModuleSignature from a SignedData without digest   *)
(* algorithms.                                                              *)
(***************************************************************************)
\* read hands the blob to ModuleSignature::new, and it decodes as SignedData
BlobDecoded ==
    /\ GotSection
    /\ SectionAccepted
    /\ tail.magic
    /\ SixConditions(tail.hdr)
    /\ tail.hdr.sig_len <= tail.len - RawModuleSignatureSize - SIGNATURE_MAGIC_len
    /\ tail.cms.der
    /\ tail.cms.content_type = ID_SIGNED_DATA
    /\ tail.cms.sd

C16_OneDigest ==
    /\ (pc = "done" /\ signature.some) => Len(hashes(signature.v)) = 1
    /\ (pc = "done" /\ BlobDecoded /\ Len(tail.cms.digest_algorithms) > 1)
          => (out = Err("UnsupportedSignature") /\ signature = None)
    /\ (pc = "done" /\ BlobDecoded /\ Len(tail.cms.digest_algorithms) = 0)
          => (out.kind = "Err" /\ signature = None)

(***************************************************************************)
(* C17: a SignedData with two or more signer infos, or whose one signer is   *)
(* named by subject key identifier, fails construction with                 *)
(* UnsupportedSignature and is never cut down to its first signer; so for    *)
(* every ModuleSignature constructed, signers() yields exactly one           *)
(* ModuleSigner, the SignedData's only one, named by issuer and serial       *)
(* number.                                                                  *)
(***************************************************************************)
C17_OneSigner ==
    /\ (pc = "done" /\ BlobDecoded
          /\ \/ Len(tail.cms.signer_infos) >= 2
             \/ /\ Len(tail.cms.signer_infos) = 1
                /\ tail.cms.signer_infos[1].sid = "SubjectKeyIdentifier")
          => (out = Err("UnsupportedSignature") /\ signature = None /\ info = NoInfo)
    /\ (pc = "done" /\ signature.some)
          => /\ Len(signers(signature.v)) = 1
             /\ signers(signature.v)[1].signer.sid = "IssuerAndSerialNumber"
             /\ tail.cms.signer_infos = <<signers(signature.v)[1].signer>>

C17_Witness ==
    /\ pc = "done"
    /\ BlobDecoded
    /\ tail.cms.digest_algorithms = <<"ID_SHA_256">>
    /\ tail.cms.signer_infos = <<IssuerAndSerial, SignerInfo("SubjectKeyIdentifier", "ID_SHA_256")>>
    /\ out = Err("UnsupportedSignature")
    /\ signature = None

(***************************************************************************)
(* C18: for every byte buffer d, decompress with a path whose extension is   *)
(* ko returns exactly d, and runs no codec: also on data that is a codec's   *)
(* stream, in every build.                                                  *)
(***************************************************************************)
C18_KoIdentity ==
    /\ (input.ext = "ko" /\ pc # "read")
          => decompress(input.features, input.ext, input.file)
               = [ok |-> TRUE, err |-> "", blob |-> input.file]
    /\ (input.ext = "ko" /\ input.fsread /\ pc # "read") => img = input.file

C18_Witness ==
    /\ pc = "done"
    /\ input.ext = "ko"
    /\ input.features = VALID_COMPRESSION
    /\ input.file.enc = "xz"
    /\ img = input.file
    /\ out.err = "InvalidModule"

(***************************************************************************)
(* C19: for every extension other than ko and the markers of the codecs the  *)
(* build enables, and for a path without extension, decompress fails with    *)
(* the unsupported compression error and returns no bytes, whatever the      *)
(* data is.                                                                 *)
(***************************************************************************)
C19_Unsupported ==
    /\ (input.ext \notin ({"ko"} \cup input.features) /\ pc # "read")
          => decompress(input.features, input.ext, input.file)
               = [ok |-> FALSE, err |-> "Unsupported", blob |-> NoBlob]
    /\ (input.ext \notin ({"ko"} \cup input.features) /\ input.fsread /\ pc # "read")
          => /\ pc = "done"
             /\ img = NoBlob
             /\ out = Compression("unknown or unsupported compression")
             /\ info = NoInfo

C19_Witness ==
    /\ pc = "done"
    /\ input.ext = "xz"
    /\ input.features = {"gz", "zst"}
    /\ input.file.enc = "xz"
    /\ input.fsread
    /\ img = NoBlob
    /\ out = Compression("unknown or unsupported compression")

(***************************************************************************)
(* C20: a corrupt stream under the extension of an enabled codec and an      *)
(* unrecognized extension reach the caller of read as two distinct kinds of  *)
(* error: the first as the compression error, the second as another kind.    *)
(* In the code both are ModInfoError::Compression and differ in the message  *)
(* only.                                                                    *)
(***************************************************************************)
CorruptStream == input.ext \in input.features /\ input.file.enc # input.ext

UnrecognizedExt == input.ext \notin ({"ko"} \cup input.features)

C20_DistinctKinds ==
    /\ (pc = "done" /\ input.fsread /\ CorruptStream)
          => (out.kind = "Err" /\ out.err = "Compression")
    /\ (pc = "done" /\ input.fsread /\ UnrecognizedExt)
          => (out.kind = "Err" /\ out.err # "Compression")

(***************************************************************************)
(* C21: from_name_with_uname takes '-' and '_' for each other and nothing   *)
(* else: the module file found has a base name equal to the requested name  *)
(* once '-' is replaced by '_' in both, and a readable module file the walk *)
(* passed over has a base name that differs from it after that replacement. *)
(***************************************************************************)
C21_DashUnderscore ==
    call.op = "from_name_with_uname" =>
        /\ ret = Ok =>
              EqEqualUnderDash_Normalized(ModuleNameOf(disk[call.i]).v, call.name)
        /\ \A j \in 1..Len(disk) :
              (j < call.i /\ ModuleNameOf(disk[j]).some /\ disk[j].read = "ok") =>
                  ~EqEqualUnderDash_Normalized(ModuleNameOf(disk[j]).v, call.name)

(***************************************************************************)
(* C22: a ModuleFile returned by a constructor of the refresh-based         *)
(* ModuleFile has its info populated, after construction and after every    *)
(* later refresh, successful or failed, so that info() never panics.        *)
(***************************************************************************)
C22_InfoPopulated ==
    /\ mf # NoModuleFile => mf.info.some
    /\ call.op = "info" => ret.kind = "Ok"

\* info() on a ModuleFile whose file is gone from the disk
C22_Witness ==
    /\ mf # NoModuleFile
    /\ call.op = "info"
    /\ ret.kind = "Ok"
    /\ ~fs_read(mf.path).some

(***************************************************************************)
(* C30: ModuleFile::refresh is all-or-nothing.  When it fails (the file is  *)
(* removed, does not decompress or does not parse) the cached info and the  *)
(* has_signature flag keep their values, and when it succeeds both are      *)
(* those of the one content read from the file.                             *)
(***************************************************************************)
C30_AllOrNothing ==
    [][MF_refresh =>
        IF ret'.kind = "Ok"
        THEN /\ fs_read(mf.path).some
             /\ mf'.info = Some(fs_read(mf.path).v.id)
             /\ mf'.signature = fs_read(mf.path).v.magic
             /\ mf'.name = mf.name /\ mf'.path = mf.path
        ELSE mf' = mf]_vars

\* A refresh failed on a file that parses no more and now ends with the
\* magic, and the ModuleFile still has the info and the flag of before
C30_Witness ==
    /\ call.op = "refresh"
    /\ ret.kind = "Err"
    /\ mf # NoModuleFile
    /\ mf.info.some
    /\ ~mf.signature
    /\ fs_read(mf.path).some
    /\ fs_read(mf.path).v.parse = "err"
    /\ fs_read(mf.path).v.magic

(***************************************************************************)
(* C23: add_partition panics on a partition number of 65536 or more, and    *)
(* on a block device with a partition number below 65536 it does not panic  *)
(* on the partition number and goes on to the BLKPG ioctl: the function     *)
(* gets past the check of part only with part < 65536, and every panic      *)
(* about the partition number has part >= 65536.                            *)
(***************************************************************************)
C23_PartitionNumber ==
    call.op = "add_partition" =>
        /\ (call.step \in {"args", "ioctl"} \/ ret.kind \in {"Ok", "Err"}) => call.part < 65536
        /\ (ret.kind = "Panic" /\ ret.err = "Invalid partition number") => call.part >= 65536

(***************************************************************************)
(* The end of the image, read off its bytes.                                *)
(***************************************************************************)
image == input.file.image.tail.bytes

\* The last bytes of the image are the marker
EndsWithMagic ==
    /\ Len(image) >= Len(SIGNATURE_MAGIC)
    /\ \A i \in 1..Len(SIGNATURE_MAGIC) :
          image[Len(image) - Len(SIGNATURE_MAGIC) + i] = SIGNATURE_MAGIC[i]

\* The twelve bytes that end m bytes before the end of the image
TrailerAt(m) == [i \in 1..12 |-> image[Len(image) - 12 - m + i]]

SixBytes(b) ==
    /\ b[1] = 0 /\ b[2] = 0 /\ b[3] = 2 /\ b[4] = 0 /\ b[5] = 0
    /\ b[6] = 0 /\ b[7] = 0 /\ b[8] = 0

\* The last four bytes of a trailer as a big-endian number
BigEndian(b) == b[9] * 16777216 + b[10] * 65536 + b[11] * 256 + b[12]

\* The image is long enough for an ELF header and ends with the marker,
\* after a section the stages before accept
Marked ==
    /\ pc = "done"
    /\ Len(image) >= Elf32_Ehdr_size
    /\ GotSection
    /\ SectionAccepted
    /\ EndsWithMagic

\* The bytes of the image from a up to b, counted from 0, b not included
Slice(a, b) == [i \in 1..(b - a) |-> image[a + i]]

(***************************************************************************)
(* C24 as stated: the marker is 29 bytes long and the trailer is the twelve *)
(* bytes at len(image) - 12 - 29, so that read fails with InvalidSignature  *)
(* when these bytes violate one of the six conditions, and a ModInfo with a *)
(* signature has them satisfy all six.                                      *)
(***************************************************************************)
C24_Marker29 ==
    /\ (Marked /\ Len(image) >= 12 + 29 /\ ~SixBytes(TrailerAt(29)))
          => out = Err("InvalidSignature")
    /\ (pc = "done" /\ signature.some) => SixBytes(TrailerAt(29))

(***************************************************************************)
(* C24: the marker matched at the end of the image is 28 bytes long and the *)
(* trailer is the twelve bytes at len(image) - 12 - 28, right before it:    *)
(* read fails with InvalidSignature when these bytes violate one of the six *)
(* conditions, a ModInfo with a signature has them satisfy all six, and an  *)
(* image in which they do, with a blob that ModuleSignature::new accepts    *)
(* before them, is read with its signature.                                 *)
(***************************************************************************)
C24_Marker28 ==
    /\ Len(SIGNATURE_MAGIC) = 28
    /\ (Marked /\ Len(image) >= 12 + 28 /\ ~SixBytes(TrailerAt(28)))
          => out = Err("InvalidSignature")
    /\ (pc = "done" /\ signature.some) => (EndsWithMagic /\ SixBytes(TrailerAt(28)))
    /\ (Marked /\ Len(image) >= 12 + 28 /\ SixBytes(TrailerAt(28))
          /\ BigEndian(TrailerAt(28)) <= Len(image) - 12 - 28
          /\ ModuleSignature_new(Slice(Len(image) - 12 - 28 - BigEndian(TrailerAt(28)),
                                       Len(image) - 12 - 28)).out = Running)
          => (out = Ok /\ signature.some)

\* A signed image is read with its signature, and the twelve bytes one byte
\* before its trailer are no valid trailer
C24_Witness ==
    /\ pc = "done"
    /\ out = Ok
    /\ signature.some
    /\ EndsWithMagic
    /\ SixBytes(TrailerAt(28))
    /\ ~SixBytes(TrailerAt(29))

(***************************************************************************)
(* C25: the subtraction len(image) - 12 - 28 does not underflow: every      *)
(* image that reaches it, signed or not, is at least as long as trailer and *)
(* magic together, and the read of a shorter image fails with an error, it  *)
(* does not panic and uses no wrapped offset.                               *)
(***************************************************************************)
C25_NoUnderflow ==
    /\ pc \in {"sig", "fields"} => Len(image) >= RawModuleSignatureSize + Len(SIGNATURE_MAGIC)
    /\ (pc = "done" /\ Len(image) < RawModuleSignatureSize + Len(SIGNATURE_MAGIC))
          => (out.kind = "Err" /\ signature = None /\ info = NoInfo)

\* The read of an image of 39 bytes that ends with the marker has failed
C25_Witness ==
    /\ pc = "done"
    /\ input.file.image.elf = "ok"
    /\ EndsWithMagic
    /\ Len(image) = RawModuleSignatureSize + Len(SIGNATURE_MAGIC) - 1
    /\ out = Err("InvalidModule")

(***************************************************************************)
(* C26: for an image that ends with the marker and has a valid trailer      *)
(* whose sig_len, decoded big-endian, is greater than the offset of the     *)
(* trailer, read fails with InvalidSignature; it does not panic and returns *)
(* no ModInfo.                                                              *)
(***************************************************************************)
C26_SigLenTooLarge ==
    (Marked /\ Len(image) >= 12 + 28 /\ SixBytes(TrailerAt(28))
        /\ BigEndian(TrailerAt(28)) > Len(image) - 12 - 28)
    => (out = Err("InvalidSignature") /\ info = NoInfo)

(***************************************************************************)
(* C27: for an image that ends with the marker and has a valid trailer with *)
(* sig_len <= trailer_offset, sig_len being the last four bytes of the      *)
(* trailer as a big-endian number, the blob handed to the CMS parser is     *)
(* image[trailer_offset - sig_len .. trailer_offset]: read fails as         *)
(* ModuleSignature::new fails on these bytes, and where it succeeds raw()   *)
(* of the signature in the ModInfo is these bytes, sig_len of them.         *)
(***************************************************************************)
C27_Blob ==
    (Marked /\ Len(image) >= 12 + 28 /\ SixBytes(TrailerAt(28))
        /\ BigEndian(TrailerAt(28)) <= Len(image) - 12 - 28)
    => LET trailer_offset == Len(image) - 12 - 28
           sig_len == BigEndian(TrailerAt(28))
           blob == Slice(trailer_offset - sig_len, trailer_offset)
       IN  IF ModuleSignature_new(blob).out = Running
           THEN /\ out = Ok
                /\ info.signature.some
                /\ raw(info.signature.v) = blob
                /\ Len(raw(info.signature.v)) = sig_len
           ELSE /\ out = ModuleSignature_new(blob).out
                /\ info = NoInfo

\* A blob of twelve bytes in the middle of the image is the signature
C27_Witness ==
    /\ pc = "done"
    /\ out = Ok
    /\ info.signature.some
    /\ raw(info.signature.v) = DerBytes(CmsOk, BlobLen)
    /\ raw(info.signature.v) = Slice(Len(image) - 12 - 28 - BlobLen, Len(image) - 12 - 28)
    /\ image[Len(image) - 12 - 28 - BlobLen] = 127

(***************************************************************************)
(* C29: in every ModInfo that read returns, parameters holds exactly one    *)
(* ModuleParameter for each distinct name that occurs in a parm or parmtype *)
(* record: no two entries have the same name, every name of a record has an *)
(* entry, and every entry has the name of a record.                         *)
(***************************************************************************)
C29_OnePerName ==
    (pc = "done" /\ out.kind = "Ok")
    => /\ \A i, j \in 1..Len(info.parameters) :
             i # j => info.parameters[i].name # info.parameters[j].name
       /\ {info.parameters[i].name : i \in 1..Len(info.parameters)} = ParamNames
       /\ Len(info.parameters) = Cardinality(ParamNames)

\* Three records of two names, one of them with a description and no type
C29_Witness ==
    /\ pc = "done"
    /\ out.kind = "Ok"
    /\ recs = << Rec(T_parm, G \o <<COLON, "d">>), Rec(T_parmtype, F \o <<COLON>> \o T_int),
                 Rec(T_parm, F \o <<COLON, "d">>) >>
    /\ Len(info.parameters) = 2
    /\ {info.parameters[i].name : i \in 1..2} = {F, G}

(***************************************************************************)
(* C28: read runs its stages in the order decompress, ELF parse, .modinfo   *)
(* lookup, tag records, parmtype records, parm records, signature, field    *)
(* extraction, and stops at the first stage that fails: each step goes to   *)
(* the next stage or ends the read, a failure ends it, the outcome of a     *)
(* read is the failure of the first stage at which the file is faulty, and  *)
(* a signature that is located and fails validation or CMS parsing fails    *)
(* the read.                                                                *)
(***************************************************************************)
Stages == <<"read", "elf", "shdr", "sdata", "tags", "parmtype", "parm", "collect", "sig", "fields", "done">>

StageRank(p) == CHOOSE i \in 1..Len(Stages) : Stages[i] = p

\* A step goes to the next stage, or ends the read; a failure ends it
StageStep ==
    /\ pc # "done"
    /\ pc' = "done" \/ StageRank(pc') = StageRank(pc) + 1
    /\ out'.kind \in {"Err", "Panic", "Ok"} => pc' = "done"
    /\ pc' = "done" => out'.kind \in {"Err", "Panic", "Ok"}

\* The kind and the name of an outcome
Failure(o) == <<o.kind, o.err>>

NoFailure == Failure(Running)

\* What each stage makes of the file, the stages before it having passed:
\* its failure, or that it passes
FailureOfStages ==
    LET d == decompress(input.features, input.ext, input.file)
        im == input.file.image
        t == TagLoop(split(im.modinfo, NUL), EmptyMap)
        pt == ParmTypeLoop(remove_or_default(t.map, T_parmtype), EmptyMap)
        pm == ParmLoop(remove_or_default(t.map, T_parm), pt.x)
        sg == SignatureStage(im.tail, input.overflow_checks)
        fp == FirstPanic(Without(t.map, {T_parmtype, T_parm}), 1)
    IN  << IF ~input.fsread \/ ~d.ok THEN <<"Err", "Compression">> ELSE NoFailure,
           IF d.blob.enc # "raw" \/ im.elf # "ok" \/ Len(im.tail.bytes) < Elf32_Ehdr_size
              THEN <<"Err", "InvalidModule">> ELSE NoFailure,
           CASE im.shdr = "none" -> <<"Err", "MissingInfo">>
             [] im.shdr = "err" -> <<"Err", "InvalidModule">>
             [] im.sdata = "compressed" -> <<"Panic", "Module .modinfo section compressed">>
             [] im.sdata = "err" -> <<"Err", "InvalidModule">>
             [] OTHER -> NoFailure,
           Failure(t.out),
           Failure(pt.out),
           Failure(pm.out),
           Failure(sg.out),
           IF fp # "" THEN <<"Panic", fp>> ELSE NoFailure >>

\* The failure of the first stage that fails, or that there is none
RECURSIVE FirstFailure(_)
FirstFailure(i) ==
    IF i > Len(FailureOfStages) THEN NoFailure
    ELSE IF FailureOfStages[i] # NoFailure THEN FailureOfStages[i]
    ELSE FirstFailure(i + 1)

\* The signature is located, and fails validation or CMS parsing
LocatedAndRejected ==
    /\ Len(image) >= 12 + 28
    /\ EndsWithMagic
    /\ \/ ~SixBytes(TrailerAt(28))
       \/ /\ BigEndian(TrailerAt(28)) <= Len(image) - 12 - 28
          /\ ModuleSignature_new(Slice(Len(image) - 12 - 28 - BigEndian(TrailerAt(28)),
                                       Len(image) - 12 - 28)).out # Running

FirstFailureReported ==
    pc = "done" =>
        /\ IF FirstFailure(1) = NoFailure
           THEN out = Ok /\ info # NoInfo
           ELSE Failure(out) = FirstFailure(1) /\ info = NoInfo
        /\ LocatedAndRejected => (out.kind # "Ok" /\ info = NoInfo)

C28_StageOrder == [][StageStep]_vars /\ []FirstFailureReported

\* A section that fails the tag loop in an image whose trailer is not valid:
\* the failure of the tag loop is the one reported
C28_Witness ==
    /\ pc = "done"
    /\ GotSection
    /\ recs = <<Rec(T_parm, F), <<"x">>>>
    /\ LocatedAndRejected
    /\ tail.hdr.algo = 1
    /\ out = Err("InvalidParameter")

====
